---- MODULE Spec2Model ----
(***************************************************************************)
(* Fall detection and alert escalation pipeline.                           *)
(*                                                                         *)
(*   SpecFSM      FallStateMachine (decision_engine/state_machine.py)      *)
(*   SpecFSMRun   the same machine, its updates in ALERT counted           *)
(*   SpecLimiter  AlertRateLimiter driven as send_alert drives it          *)
(*   SpecAlerts   MultiLevelAlertSystem: send_alert, the scheduled         *)
(*                escalation tasks and acknowledge_alert                   *)
(*   SpecMain     run_normal_mode: detectors -> state machine -> alerts    *)
(*                                                                         *)
(* Scores in [0,1] are kept in hundredths (0.3 is 30); acceleration        *)
(* magnitudes and seconds are integers.                                    *)
(***************************************************************************)
EXTENDS Integers, Sequences, FiniteSets, TLC

VARIABLES
    \* FallStateMachine fields
    state, fall_timer, inactivity_count, risk_state, risk_state_timer,
    \* the arguments of the last update call and the fields before it
    inp, pre,
    \* how many of the most recent update calls in a row had posture lying
    \* with inactive true, counted up to min_inactivity_window
    confirming_run,
    \* number of update calls made since the machine entered ALERT
    alert_updates,
    \* the clock read by time.time(), in seconds
    now,
    \* AlertRateLimiter fields: sequences of <<time, alert type>>
    minute_alerts, hour_alerts,
    \* the last can_send_alert call and its result
    last_req,
    \* the can_send_alert calls made so far: a sequence of <<time, alert type>>
    requests,
    \* MultiLevelAlertSystem: the Alert objects in creation order
    \* (alert_history), the dict active_alerts (id -> index of the object) and
    \* background_tasks
    alerts, active_alerts, background_tasks,
    \* the escalation steps executed so far, and the alerts whose id has been
    \* passed to an acknowledge_alert call that returned true
    attempts, acked,
    \* run_normal_mode: FallDetector.magnitude_buffer,
    \* InactivityDetector.magnitude_buffer, len(PostureClassifier.accel_buffer)
    \* and the local prev_magnitude
    magnitude_buffer, inactivity_buffer, accel_samples, prev_magnitude,
    \* the AlertController (with its buzzer)
    controller,
    \* loop iterations made, and the fall episode they are in: its stage, the
    \* machine states passed and the remote alerts sent
    ticks, episode,
    \* the machine states the loop has seen since it started, repeats dropped
    trail,
    \* PostureClassifier.accel_buffer, the posture of the last iteration, and
    \* whether every sample so far was at rest, upright and of low instability
    accel_buffer, last_posture, steady,
    \* FeatureExtractor: magnitude_buffer and sample_count, and the last
    \* extraction call with what it returned
    feature_magnitudes, sample_count, extraction,
    \* the other fields of the FeatureExtractor (previous sample, posture
    \* tracking, its PreFallInstabilityDetector), and the last update call:
    \* its sample and timestamp, those of the call before it, the jerk and
    \* the posture fields of the vector it returned
    extractor, feature_call,
    \* the DecisionEngine, and its last call with what it returned
    engine, engine_call,
    \* the MultiLayerFallDetector (with the last_fall_time of its threshold
    \* layer), its last call with what it returned, and the calls made
    detector, detect_call, runs,
    \* the last handle call made on the AlertController by a caller other
    \* than run_normal_mode (its arguments, the controller before it and how
    \* many calls in a row had state ALERT without a cancel), and the number
    \* of such calls
    handle_call, handles,
    \* the SystemStateManager, and its monitoring thread: where it is in
    \* _monitoring_loop, the keys of active_alerts when the loop of
    \* _check_auto_escalation began, the keys it has visited and whether
    \* an error has been caught
    safety, monitor,
    \* the last evaluate_sensor_data call: the sample, the time, what the
    \* manager held before it and the types of the alerts it returned
    evaluation

fsmVars == <<state, fall_timer, inactivity_count, risk_state, risk_state_timer>>
vars == <<state, fall_timer, inactivity_count, risk_state, risk_state_timer,
          inp, pre, confirming_run, alert_updates,
          now, minute_alerts, hour_alerts, last_req, requests,
          alerts, active_alerts, background_tasks, attempts, acked,
          magnitude_buffer, inactivity_buffer, accel_samples, prev_magnitude,
          controller, ticks, episode, trail,
          accel_buffer, last_posture, steady,
          feature_magnitudes, sample_count, extraction,
          extractor, feature_call,
          engine, engine_call, detector, detect_call, runs,
          handle_call, handles, safety, monitor, evaluation>>
limiterVars == <<now, minute_alerts, hour_alerts, last_req, requests>>
alertVars == <<alerts, active_alerts, background_tasks, attempts, acked>>
obsVars == <<inp, pre, confirming_run, alert_updates>>
mainVars == <<magnitude_buffer, inactivity_buffer, accel_samples,
              prev_magnitude, controller, ticks, episode, trail>>
streamVars == <<accel_buffer, last_posture, steady>>
featureVars == <<feature_magnitudes, sample_count, extraction,
                 extractor, feature_call>>
\* the components of the learning pipeline (detection/)
engineVars == <<engine, engine_call>>
detectorVars == <<detector, detect_call, runs>>
mlVars == <<featureVars, engineVars, detectorVars>>
callVars == <<handle_call, handles>>
safetyVars == <<safety, monitor, evaluation>>
\* the variables of the other components
extVars == <<streamVars, mlVars, callVars, safetyVars>>
\* the variables of the rule-based pipeline (main.py)
pipelineVars == <<fsmVars, obsVars, limiterVars, alertVars, mainVars,
                  streamVars, callVars, safetyVars>>

(***************************************************************************)
(* Bounds of the model                                                     *)
(***************************************************************************)
MaxRiskTimer == 3
MaxAlertUpdates == 17
MaxTime == 120
MaxRequests == 7
MaxAlerts == 2
MaxTicks == 8
MaxStreamTicks == 6
MaxFeeds == 11
MaxEngineTime == 2
MaxAdaptTime == 16
MaxRuns == 2
MaxHandles == 3
MaxAlertRun == 13
MaxSafetyAlerts == 2
MaxSafetyTime == 310
MaxTimedFeeds == 4
MaxSteadyFeeds == 12
MaxSensorTime == 34
MaxDecisions == 2

(***************************************************************************)
(* FallStateMachine                                                        *)
(***************************************************************************)
confirmation_window == 5
min_inactivity_window == 3
low_risk_threshold == 30
medium_risk_threshold == 60
high_risk_threshold == 80
risk_persistence_window == 2
alert_extra_window == 10

States == {"NORMAL", "MONITORING", "PRE_FALL_WARNING", "POSSIBLE_FALL",
           "CONFIRMED_FALL", "ALERT"}
RiskLevels == {"LOW", "MEDIUM", "HIGH", "CRITICAL"}
Postures == {"standing", "lying"}
RiskSamples == {29, 30, 60, 80}

RiskRank(l) ==
    CASE l = "LOW" -> 0
      [] l = "MEDIUM" -> 1
      [] l = "HIGH" -> 2
      [] l = "CRITICAL" -> 3

\* _update_risk_state, lines 131-138: the level of one instability score
current_risk_level(instability_risk) ==
    IF instability_risk < low_risk_threshold THEN "LOW"
    ELSE IF instability_risk < medium_risk_threshold THEN "MEDIUM"
    ELSE IF instability_risk < high_risk_threshold THEN "HIGH"
    ELSE "CRITICAL"

\* A variant that commits a rise only after the persistence window.
update_risk_state_delayed(f, instability_risk) ==
    LET lvl == current_risk_level(instability_risk) IN
    IF lvl = f.risk_state
    THEN [f EXCEPT !.risk_state_timer = f.risk_state_timer + 1]
    ELSE IF f.risk_state_timer >= risk_persistence_window
         THEN [f EXCEPT !.risk_state = lvl, !.risk_state_timer = 1]
         ELSE [f EXCEPT !.risk_state_timer = f.risk_state_timer + 1]

\* _update_risk_state, lines 140-159
update_risk_state(f, instability_risk) ==
    LET lvl == current_risk_level(instability_risk) IN
    IF lvl = f.risk_state
    THEN [f EXCEPT !.risk_state_timer = f.risk_state_timer + 1]
    ELSE LET g == [f EXCEPT !.risk_state_timer = 1] IN
         IF \/ (lvl = "MEDIUM" /\ g.risk_state = "LOW")
            \/ (lvl = "HIGH" /\ g.risk_state \in {"LOW", "MEDIUM"})
            \/ lvl = "CRITICAL"
         THEN [g EXCEPT !.risk_state = lvl, !.risk_state_timer = 1]
         ELSE IF g.risk_state_timer >= risk_persistence_window
              THEN [g EXCEPT !.risk_state = lvl, !.risk_state_timer = 1]
              ELSE g

\* A variant of the pre-fall branches that looks at the risk level first.
pre_fall_branch_risk_first(f, spike) ==
    IF f.state = "NORMAL" /\ f.risk_state = "HIGH"
    THEN [f EXCEPT !.state = "PRE_FALL_WARNING"]
    ELSE IF spike
    THEN [f EXCEPT !.state = "POSSIBLE_FALL", !.fall_timer = 0,
                   !.inactivity_count = 0]
    ELSE f

\* update, lines 56-96: the NORMAL, MONITORING and PRE_FALL_WARNING branches
pre_fall_branch(f, spike) ==
    IF spike
    THEN [f EXCEPT !.state = "POSSIBLE_FALL", !.fall_timer = 0,
                   !.inactivity_count = 0]
    ELSE CASE f.state = "NORMAL" ->
                IF f.risk_state = "HIGH"
                THEN [f EXCEPT !.state = "PRE_FALL_WARNING"]
                ELSE IF f.risk_state = "MEDIUM"
                THEN [f EXCEPT !.state = "MONITORING"]
                ELSE f
           [] f.state = "MONITORING" ->
                IF f.risk_state = "LOW"
                THEN [f EXCEPT !.state = "NORMAL"]
                ELSE IF f.risk_state = "HIGH"
                THEN [f EXCEPT !.state = "PRE_FALL_WARNING"]
                ELSE f
           [] f.state = "PRE_FALL_WARNING" ->
                IF f.risk_state = "LOW"
                THEN [f EXCEPT !.state = "NORMAL"]
                ELSE IF f.risk_state = "MEDIUM"
                THEN [f EXCEPT !.state = "MONITORING"]
                ELSE f

\* update, lines 98-109: the POSSIBLE_FALL branch
possible_fall_branch(f, posture, inactive, post_fall_state) ==
    LET g == [f EXCEPT !.fall_timer = f.fall_timer + 1] IN
    IF posture = "lying" /\ inactive
    THEN LET h == [g EXCEPT !.inactivity_count = g.inactivity_count + 1] IN
         IF h.inactivity_count >= min_inactivity_window
         THEN [h EXCEPT !.state = "CONFIRMED_FALL"]
         ELSE h
    ELSE IF post_fall_state /\ g.fall_timer >= 2
    THEN [g EXCEPT !.state = "CONFIRMED_FALL"]
    ELSE IF g.fall_timer > confirmation_window
    THEN [g EXCEPT !.state = "NORMAL", !.inactivity_count = 0]
    ELSE g

\* update, lines 114-119: the ALERT branch
alert_branch(f) ==
    IF f.fall_timer > confirmation_window + alert_extra_window
    THEN [f EXCEPT !.state = "NORMAL", !.fall_timer = 0,
                   !.inactivity_count = 0, !.risk_state_timer = 0]
    ELSE f

\* update, lines 36-121
update(f0, spike, posture, inactive, post_fall_state, instability_risk) ==
    LET f == update_risk_state(f0, instability_risk) IN
    CASE f.state \in {"NORMAL", "MONITORING", "PRE_FALL_WARNING"} ->
            pre_fall_branch(f, spike)
      [] f.state = "POSSIBLE_FALL" ->
            possible_fall_branch(f, posture, inactive, post_fall_state)
      [] f.state = "CONFIRMED_FALL" -> [f EXCEPT !.state = "ALERT"]
      [] f.state = "ALERT" -> alert_branch(f)

\* the fields of the machine as one record
fsm ==
    [state |-> state, fall_timer |-> fall_timer,
     inactivity_count |-> inactivity_count, risk_state |-> risk_state,
     risk_state_timer |-> risk_state_timer]

NoCall == [called |-> FALSE]

\* the initial state of the DecisionEngine (detection/decision_engine.py):
\* the rule table and the fields set by __init__
\* None, as an argument of handle or as a feature value
NoValue == -1

unit_factor == 1000000

\* _initialize_rules, lines 140-190: name, the feature named in the
\* condition, the threshold of the condition, and the weight
rules == <<
    [name |-> "high_impact_fall", feature |-> "accel_magnitude_max",
     threshold |-> 25, weight |-> 25],
    [name |-> "sudden_jerk", feature |-> "jerk_magnitude_max",
     threshold |-> 150, weight |-> 20],
    [name |-> "prolonged_inactivity", feature |-> "inactivity_duration",
     threshold |-> 50, weight |-> 15],
    [name |-> "orientation_change", feature |-> "orientation_stability",
     threshold |-> 300, weight |-> 10],
    [name |-> "heart_rate_anomaly", feature |-> "hr_anomaly_detected",
     threshold |-> 0, weight |-> 10],
    [name |-> "spo2_anomaly", feature |-> "spo2_anomaly_detected",
     threshold |-> 0, weight |-> 10],
    [name |-> "high_anomaly_score", feature |-> "anomaly_score",
     threshold |-> 15, weight |-> 10] >>

\* the reasoning string of a rule: its text and the numbers formatted into it
Reasoning(text, value, threshold) ==
    [text |-> text, value |-> value, threshold |-> threshold]

NoReasoning == Reasoning("", 0, 0)

\* the fields of a DecisionRule object that change: __init__, lines 47-48,
\* the attributes _evaluate_rules adds being absent
NewRule ==
    [last_triggered |-> FALSE, trigger_count |-> 0, confidence |-> 0,
     reasoning |-> NoReasoning]

\* current_context after __init__ and after clear(): a missing key is
\* written "None", the missing count 0
NoContext ==
    [last_decision_time |-> NoValue, last_decision_type |-> "None",
     recent_urgency |-> "None", fall_alerts_count |-> 0]

\* DecisionEngine.__init__, lines 119-138
InitEngine ==
    [rule_states |-> [i \in DOMAIN rules |-> NewRule],
     decision_history |-> <<>>,
     recent_decisions |-> <<>>,
     current_context |-> NoContext,
     threshold_adjustment_factor |-> unit_factor,
     false_positive_rate |-> 0,
     true_positive_rate |-> 0]

\* SystemStateManager.__init__, lines 64-124: alert_history holds the
\* AlertEvent objects in creation order, active_alerts maps an id to the
\* index of its object
InitSafety ==
    [current_state |-> "NORMAL", state_start_time |-> 0,
     active_alerts |-> <<>>, alert_history |-> <<>>,
     cooldown_timers |-> <<>>, suppression_windows |-> <<>>,
     false_positive_counts |-> <<>>, is_monitoring |-> FALSE]

\* the monitoring thread before start_monitoring
InitMonitor ==
    [pc |-> "idle", keys |-> {}, visited |-> {}, error |-> FALSE]

\* FeatureExtractor.__init__, lines 164-195, and
\* PreFallInstabilityDetector.__init__, lines 20-50
InitExtractor ==
    [prev_accel |-> <<0, 0, 0>>, start_time |-> 0,
     posture_history |-> <<>>, posture_transition_times |-> <<>>,
     current_posture_start_time |-> 0,
     instability |-> [prev_accel |-> <<0, 0, 0>>, prev_timestamp |-> 0,
                      jerk_history |-> <<>>, samples |-> 0]]

\* AlertController.__init__ and Buzzer.__init__; None is written "None"
InitController ==
    [alert_sent |-> FALSE, timer |-> 0, last_alert_time |-> "None",
     alert_history |-> <<>>, alert_active |-> FALSE,
     current_state |-> "NORMAL", last_notification_time |-> "None",
     last_sitting_transition |-> "None", external_alerts |-> 0,
     buzzer_active |-> FALSE, pulse_count |-> 0]

\* no fall episode is being followed
NoEpisode == [stage |-> 0, path |-> <<>>, fall_alerts |-> 0,
              emergency_alerts |-> 0]

\* __init__, lines 9-34
InitFSM ==
    /\ state = "NORMAL"
    /\ fall_timer = 0
    /\ inactivity_count = 0
    /\ risk_state = "LOW"
    /\ risk_state_timer = 0
    /\ inp = NoCall
    /\ pre = NoCall
    /\ confirming_run = 0
    /\ alert_updates = 0
    /\ now = 0
    /\ minute_alerts = <<>>
    /\ hour_alerts = <<>>
    /\ last_req = NoCall
    /\ requests = <<>>
    /\ alerts = <<>>
    /\ active_alerts = <<>>
    /\ background_tasks = <<>>
    /\ attempts = {}
    /\ acked = {}
    /\ magnitude_buffer = <<>>
    /\ inactivity_buffer = <<>>
    /\ accel_samples = 0
    /\ prev_magnitude = 0
    /\ controller = InitController
    /\ ticks = 0
    /\ episode = NoEpisode
    /\ trail = <<"NORMAL">>
    /\ accel_buffer = <<>>
    /\ last_posture = "unknown"
    /\ steady = TRUE
    /\ feature_magnitudes = <<>>
    /\ sample_count = 0
    /\ extraction = NoCall
    /\ extractor = InitExtractor
    /\ feature_call = NoCall
    /\ engine = InitEngine
    /\ engine_call = NoCall
    /\ detector = [last_fall_time |-> 0, detection_history |-> <<>>]
    /\ detect_call = NoCall
    /\ handle_call = NoCall
    /\ handles = 0
    /\ safety = InitSafety
    /\ monitor = InitMonitor
    /\ evaluation = NoCall
    /\ runs = 0

\* one call of update with the given arguments, the call and the fields
\* before it recorded
ApplyUpdate(spike, posture, inactive, post_fall_state, instability_risk) ==
    LET n == update(fsm, spike, posture, inactive, post_fall_state,
                    instability_risk) IN
    /\ n.risk_state_timer <= MaxRiskTimer
    /\ state' = n.state
    /\ fall_timer' = n.fall_timer
    /\ inactivity_count' = n.inactivity_count
    /\ risk_state' = n.risk_state
    /\ risk_state_timer' = n.risk_state_timer
    /\ inp' = [called |-> TRUE, spike |-> spike, posture |-> posture,
               inactive |-> inactive, post_fall_state |-> post_fall_state,
               instability_risk |-> instability_risk]
    /\ pre' = [called |-> TRUE, state |-> state, fall_timer |-> fall_timer,
               inactivity_count |-> inactivity_count,
               risk_state |-> risk_state,
               risk_state_timer |-> risk_state_timer,
               last_level |-> IF inp.called
                              THEN current_risk_level(inp.instability_risk)
                              ELSE "NONE"]
    /\ confirming_run' = IF ~(posture = "lying" /\ inactive) THEN 0
                         ELSE IF confirming_run < min_inactivity_window
                         THEN confirming_run + 1
                         ELSE min_inactivity_window
    /\ UNCHANGED <<alert_updates, limiterVars, alertVars, mainVars, extVars>>

Update ==
    \E spike \in BOOLEAN, posture \in Postures, inactive \in BOOLEAN,
       post_fall_state \in BOOLEAN, instability_risk \in RiskSamples :
        ApplyUpdate(spike, posture, inactive, post_fall_state, instability_risk)

NextFSM == Update

SpecFSM == InitFSM /\ [][NextFSM]_vars

\* one call of update, the calls made since ALERT was entered counted
UpdateInAlertRun ==
    \E spike \in BOOLEAN, posture \in Postures, inactive \in BOOLEAN,
       post_fall_state \in BOOLEAN, instability_risk \in RiskSamples :
        LET n == update(fsm, spike, posture, inactive, post_fall_state,
                        instability_risk) IN
        /\ n.risk_state_timer <= MaxRiskTimer
        /\ state = "ALERT" => alert_updates < MaxAlertUpdates
        /\ state' = n.state
        /\ fall_timer' = n.fall_timer
        /\ inactivity_count' = n.inactivity_count
        /\ risk_state' = n.risk_state
        /\ risk_state_timer' = n.risk_state_timer
        /\ alert_updates' = IF state = "ALERT" /\ n.state = "ALERT"
                            THEN alert_updates + 1 ELSE 0
        /\ UNCHANGED <<inp, pre, confirming_run, limiterVars, alertVars,
                       mainVars, extVars>>

NextFSMRun == UpdateInAlertRun

SpecFSMRun == InitFSM /\ [][NextFSMRun]_vars


(***************************************************************************)
(* AlertRateLimiter (alerts/multi_level_alert_system.py)                   *)
(***************************************************************************)
max_per_minute == 5
max_per_hour == 50
minute_window == 60
hour_window == 3600

LimiterTypes == {"fall_detected", "emergency"}
TimeSteps == {30}

\* deque(maxlen=n).append
DequeAppend(q, x, n) == IF Len(q) >= n THEN Append(Tail(q), x) ELSE Append(q, x)

\* _clean_old_alerts, lines 111-121: one window
RECURSIVE clean_old_alerts(_, _, _)
clean_old_alerts(q, current_time, window) ==
    IF q # <<>> /\ current_time - q[1][1] > window
    THEN clean_old_alerts(Tail(q), current_time, window)
    ELSE q

\* A variant whose per-minute test is off by one.
can_send_alert_off_by_one(alert_type, minute_q, hour_q) ==
    IF Len(minute_q) > max_per_minute
    THEN [can_send |-> FALSE, reason |-> "minute"]
    ELSE IF Len(hour_q) >= max_per_hour
    THEN [can_send |-> FALSE, reason |-> "hour"]
    ELSE [can_send |-> TRUE, reason |-> "ok"]

\* can_send_alert, lines 90-102, on the cleaned windows
can_send_alert(alert_type, minute_q, hour_q) ==
    IF Len(minute_q) >= max_per_minute
    THEN [can_send |-> FALSE, reason |-> "minute"]
    ELSE IF Len(hour_q) >= max_per_hour
    THEN [can_send |-> FALSE, reason |-> "hour"]
    ELSE IF alert_type = "emergency"
    THEN [can_send |-> TRUE, reason |-> "emergency"]
    ELSE [can_send |-> TRUE, reason |-> "ok"]

\* The limiter's part of send_alert (lines 427-430 and 445): can_send_alert,
\* which cleans both windows, and record_alert when the alert is permitted.
\* Yields the result and the windows after the call.
rate_limit(alert_type, current_time, minute_q, hour_q) ==
    LET m == clean_old_alerts(minute_q, current_time, minute_window)
        h == clean_old_alerts(hour_q, current_time, hour_window)
        r == can_send_alert(alert_type, m, h)
    IN  [can_send |-> r.can_send, reason |-> r.reason,
         minute_alerts |-> IF r.can_send
                           THEN DequeAppend(m, <<current_time, alert_type>>,
                                            max_per_minute)
                           ELSE m,
         hour_alerts |-> IF r.can_send
                         THEN DequeAppend(h, <<current_time, alert_type>>,
                                          max_per_hour)
                         ELSE h]

\* time passes
Advance ==
    \E d \in TimeSteps :
        /\ now + d <= MaxTime
        /\ now' = now + d
        /\ UNCHANGED <<fsmVars, obsVars, mainVars, extVars, minute_alerts, hour_alerts, last_req,
                       requests, alertVars>>

\* send_alert as far as the limiter is concerned
LimitedSend ==
    \E alert_type \in LimiterTypes :
        LET r == rate_limit(alert_type, now, minute_alerts, hour_alerts) IN
        /\ Len(requests) < MaxRequests
        /\ minute_alerts' = r.minute_alerts
        /\ hour_alerts' = r.hour_alerts
        /\ last_req' = [called |-> TRUE, alert_type |-> alert_type,
                        time |-> now, can_send |-> r.can_send,
                        reason |-> r.reason]
        /\ requests' = Append(requests, <<now, alert_type>>)
        /\ UNCHANGED <<fsmVars, obsVars, mainVars, extVars, now, alertVars>>

NextLimiter == Advance \/ LimitedSend

SpecLimiter == InitFSM /\ [][NextLimiter]_vars

(***************************************************************************)
(* MultiLevelAlertSystem (alerts/multi_level_alert_system.py)              *)
(***************************************************************************)
AlertTypes == {"fall_detected", "emergency"}
AlertLevels == {"critical"}
AlertChannels == {"local_buzzer", "mobile_notification", "email", "sms",
                  "web_socket", "voice_call"}
\* the sets of channels whose handler fails (returns False or raises) during
\* one escalation step
DownSets == {{}, {"mobile_notification", "email", "sms"}}
\* the channels of a down set whose request raises an error; the others are
\* answered with a status other than 200
Raising(down) == down \cap {"mobile_notification"}

Step(delay, channels, condition) ==
    [delay |-> delay, channels |-> channels, condition |-> condition]

\* _initialize_escalation_rules, lines 298-355, and get_escalation_plan
escalation_rules(alert_type) ==
    CASE alert_type = "fall_detected" ->
            << Step(0, <<"local_buzzer", "mobile_notification">>, "none"),
               Step(60, <<"email", "web_socket">>, "not_acknowledged"),
               Step(300, <<"sms">>, "not_acknowledged"),
               Step(600, <<"voice_call">>, "not_acknowledged") >>
      [] alert_type = "emergency" ->
            << Step(0, <<"local_buzzer", "mobile_notification", "sms", "email",
                         "web_socket">>, "none"),
               Step(30, <<"voice_call">>, "not_acknowledged") >>
      [] alert_type = "health_anomaly" ->
            << Step(0, <<"mobile_notification", "web_socket">>, "none"),
               Step(300, <<"email">>, "not_acknowledged") >>
      [] alert_type = "pre_fall_warning" ->
            << Step(0, <<"local_buzzer", "mobile_notification">>, "none") >>
      [] OTHER -> << >>

Range(q) == {q[i] : i \in DOMAIN q}

\* should_escalate, lines 361-372
should_escalate(alert, step) ==
    CASE step.condition = "none" -> TRUE
      [] step.condition = "not_acknowledged" -> ~alert.acknowledged
      [] step.condition = "not_escalated" -> ~alert.escalated
      [] OTHER -> FALSE

\* what becomes of the request a channel's handler makes
delivery(channel, down, raised) ==
    IF channel \in raised THEN "raised"
    ELSE IF channel \in down THEN "refused"
    ELSE "sent"

\* the handlers of AlertChannelHandler, lines 131-280, and
\* _initiate_voice_call, lines 575-600: True on status 200; another status
\* and an error caught by the handler's own except both give False
send(channel, down, raised) ==
    CASE delivery(channel, down, raised) = "sent" -> TRUE
      [] delivery(channel, down, raised) = "refused" -> FALSE
      [] delivery(channel, down, raised) = "raised" -> FALSE

\* the loop of _execute_escalation_step gives up at the first error
RECURSIVE send_channels_aborting(_, _, _)
send_channels_aborting(channels, down, raised) ==
    IF channels = <<>> THEN [tried |-> <<>>, used |-> <<>>]
    ELSE IF delivery(channels[1], down, raised) = "raised"
    THEN [tried |-> <<channels[1]>>, used |-> <<>>]
    ELSE LET rest == send_channels_aborting(Tail(channels), down, raised)
         IN [tried |-> <<channels[1]>> \o rest.tried,
             used |-> (IF send(channels[1], down, raised)
                       THEN <<channels[1]>> ELSE <<>>) \o rest.used]

\* the loop of _execute_escalation_step, lines 515-545, with its try inside
\* the loop: the channels whose handler was called and the channels appended
\* to channels_used, in order
RECURSIVE send_channels(_, _, _)
send_channels(channels, down, raised) ==
    IF channels = <<>> THEN [tried |-> <<>>, used |-> <<>>]
    ELSE LET rest == send_channels(Tail(channels), down, raised)
         IN [tried |-> <<channels[1]>> \o rest.tried,
             used |-> (IF send(channels[1], down, raised)
                       THEN <<channels[1]>> ELSE <<>>) \o rest.used]

\* _execute_escalation_step, lines 507-549
execute_escalation_step(alert, step, down, raised) ==
    [alert EXCEPT
        !.channels_used = @ \o send_channels(step.channels, down, raised).used,
        !.escalated = IF step.delay > 0 THEN TRUE ELSE @]

\* what one execution of a step is remembered by: the handlers called, the
\* channels that answered 200 and the channels whose request raised
StepRecord(a, k, step, after_ack, down, raised) ==
    [alert |-> a, step |-> k, after_ack |-> after_ack,
     tried |-> send_channels(step.channels, down, raised).tried,
     sent |-> Range(step.channels) \ down,
     raised |-> Range(step.channels) \cap raised]

\* the alert id built at line 433
alert_id(alert_type, current_time) == <<alert_type, current_time>>

\* the Alert created at lines 434-442
new_alert(alert_type, level, current_time) ==
    [id |-> alert_id(alert_type, current_time), type |-> alert_type,
     level |-> level, timestamp |-> current_time, acknowledged |-> FALSE,
     escalated |-> FALSE, channels_used |-> <<>>]

\* _start_escalation, lines 484-490: the steps of delay 0 run at once
RECURSIVE run_immediate(_, _, _, _)
run_immediate(alert, plan, down, raised) ==
    IF plan = <<>> THEN alert
    ELSE run_immediate(IF plan[1].delay = 0
                       THEN execute_escalation_step(alert, plan[1], down,
                                                    raised)
                       ELSE alert,
                       Tail(plan), down, raised)

\* _start_escalation, lines 491-496: one task per step of delay > 0
RECURSIVE scheduled_tasks(_, _, _, _)
scheduled_tasks(a, plan, k, current_time) ==
    IF k > Len(plan) THEN <<>>
    ELSE (IF plan[k].delay > 0
          THEN << [alert |-> a, step |-> k, due |-> current_time + plan[k].delay,
                   status |-> "sleeping"] >>
          ELSE <<>>) \o scheduled_tasks(a, plan, k + 1, current_time)

ImmediateSteps(a, plan, down, raised) ==
    {StepRecord(a, k, plan[k], FALSE, down, raised) :
        k \in {j \in DOMAIN plan : plan[j].delay = 0}}

\* dict assignment d[k] = v
DictPut(d, k, v) == [x \in (DOMAIN d) \cup {k} |-> IF x = k THEN v ELSE d[x]]

\* send_alert, lines 418-478
SendAlert ==
    \E alert_type \in AlertTypes, level \in AlertLevels :
        LET r == rate_limit(alert_type, now, minute_alerts, hour_alerts)
            plan == escalation_rules(alert_type)
            a == Len(alerts) + 1
        IN
        /\ Len(alerts) < MaxAlerts
        /\ now <= MaxTime
        /\ minute_alerts' = r.minute_alerts
        /\ hour_alerts' = r.hour_alerts
        /\ IF ~r.can_send
           THEN UNCHANGED <<alerts, active_alerts, background_tasks, attempts>>
           ELSE \E down \in DownSets :
                LET raised == Raising(down) IN
                /\ alerts' = Append(alerts,
                        run_immediate(new_alert(alert_type, level, now), plan,
                                      down, raised))
                /\ active_alerts' =
                        DictPut(active_alerts, alert_id(alert_type, now), a)
                /\ background_tasks' =
                        background_tasks \o scheduled_tasks(a, plan, 1, now)
                /\ attempts' = attempts
                        \cup ImmediateSteps(a, plan, down, raised)
        /\ UNCHANGED <<fsmVars, obsVars, mainVars, extVars, now, last_req, requests, acked>>

\* the sleeping tasks whose delay has elapsed, earliest first
DueTasks ==
    {k \in DOMAIN background_tasks :
        /\ background_tasks[k].status = "sleeping"
        /\ background_tasks[k].due <= now
        /\ \A j \in DOMAIN background_tasks :
              background_tasks[j].status = "sleeping"
                  => background_tasks[k].due <= background_tasks[j].due}

\* _scheduled_escalation, lines 498-505, from the end of its sleep
ScheduledEscalation ==
    \E k \in DueTasks :
        LET t == background_tasks[k]
            alert == alerts[t.alert]
            step == escalation_rules(alert.type)[t.step]
        IN
        /\ background_tasks' = [background_tasks EXCEPT ![k].status = "done"]
        /\ IF alert.id \in DOMAIN active_alerts /\ should_escalate(alert, step)
           THEN \E down \in DownSets :
                LET raised == Raising(down) IN
                /\ alerts' = [alerts EXCEPT
                        ![t.alert] = execute_escalation_step(alert, step, down,
                                                             raised)]
                /\ attempts' = attempts \cup
                        {StepRecord(t.alert, t.step, step, t.alert \in acked,
                                    down, raised)}
           ELSE UNCHANGED <<alerts, attempts>>
        /\ UNCHANGED <<fsmVars, obsVars, mainVars, extVars, limiterVars, active_alerts, acked>>

\* escalation_timers, line 389: never assigned after __init__
escalation_timers == {}

\* _cancel_pending_escalations, lines 618-624: the tasks after the call
cancel_pending_escalations(id, tasks) ==
    IF id \in escalation_timers
    THEN [k \in DOMAIN tasks |->
            IF alerts[tasks[k].alert].id = id /\ tasks[k].status = "sleeping"
            THEN [tasks[k] EXCEPT !.status = "cancelled"] ELSE tasks[k]]
    ELSE tasks

\* the ids a caller may pass: the ids returned so far and one unknown id
KnownIds == {alerts[i].id : i \in DOMAIN alerts} \cup {<<"unknown", 0>>}

\* acknowledge_alert, lines 602-616
AcknowledgeAlert ==
    \E id \in KnownIds :
        /\ IF id \in DOMAIN active_alerts
           THEN /\ alerts' = [alerts EXCEPT
                        ![active_alerts[id]].acknowledged = TRUE]
                /\ background_tasks' =
                        cancel_pending_escalations(id, background_tasks)
                /\ acked' = acked \cup {i \in DOMAIN alerts : alerts[i].id = id}
           ELSE UNCHANGED <<alerts, background_tasks, acked>>
        /\ UNCHANGED <<fsmVars, obsVars, mainVars, extVars, limiterVars, active_alerts, attempts>>

\* get_active_alerts, lines 626-628
get_active_alerts == {alerts[active_alerts[id]] : id \in DOMAIN active_alerts}

\* get_alert_history, lines 630-632
get_alert_history == alerts

\* the event loop's clock reaches the next sleeping task's wake-up time
AdvanceToTimer ==
    LET later == {background_tasks[k].due : k \in
                    {j \in DOMAIN background_tasks :
                        /\ background_tasks[j].status = "sleeping"
                        /\ background_tasks[j].due > now}}
    IN  /\ later # {}
        /\ now' = CHOOSE d \in later : \A e \in later : d <= e
        /\ UNCHANGED <<fsmVars, obsVars, mainVars, extVars, minute_alerts, hour_alerts, last_req,
                       requests, alertVars>>

NextAlerts ==
    SendAlert \/ ScheduledEscalation \/ AcknowledgeAlert \/ AdvanceToTimer

SpecAlerts == InitFSM /\ [][NextAlerts]_vars

(***************************************************************************)
(* The detectors of run_normal_mode (detection/)                           *)
(***************************************************************************)
window_size == 5
spike_threshold == 18
recovery_threshold == 12
inactivity_window_size == 3
tolerance_tenths == 3
posture_window_size == 5

\* magnitudes of a sample: near zero, at rest (gravity), an impact
Magnitudes == {0, 10, 25}
\* the instability scores PreFallInstabilityDetector.update returns
MainRisks == {29, 30, 60}

RECURSIVE SeqSum(_)
SeqSum(q) == IF q = <<>> THEN 0 ELSE Head(q) + SeqSum(Tail(q))

SeqMax(q) == CHOOSE x \in Range(q) : \A y \in Range(q) : y <= x
SeqMin(q) == CHOOSE x \in Range(q) : \A y \in Range(q) : x <= y
Abs(x) == IF x < 0 THEN -x ELSE x

\* FallDetector.get_smoothed_magnitude, lines 20-32: the buffer after the
\* call and the value returned, as the fraction sum / n
get_smoothed_magnitude(buffer, magnitude) ==
    LET b == DequeAppend(buffer, magnitude, window_size) IN
    IF Len(b) < window_size
    THEN [buffer |-> b, sum |-> magnitude, n |-> 1]
    ELSE [buffer |-> b, sum |-> SeqSum(b), n |-> Len(b)]

\* FallDetector.detect_fall, lines 34-42, followed by is_in_post_fall_state,
\* lines 44-52, as the loop calls them: each call appends the sample
fall_detector(buffer, magnitude) ==
    LET d == get_smoothed_magnitude(buffer, magnitude)
        p == get_smoothed_magnitude(d.buffer, magnitude)
    IN  [buffer |-> p.buffer,
         spike |-> d.sum > spike_threshold * d.n,
         post_fall_state |-> p.sum < recovery_threshold * p.n]

\* InactivityDetector.is_inactive, lines 20-36
is_inactive(buffer, magnitude, prev) ==
    LET b == DequeAppend(buffer, magnitude, inactivity_window_size) IN
    [buffer |-> b,
     inactive |-> IF Len(b) < inactivity_window_size
                  THEN 10 * Abs(magnitude - prev) < tolerance_tenths
                  ELSE 10 * (SeqMax(b) - SeqMin(b)) <= tolerance_tenths]

\* PostureClassifier.classify_posture, lines 25-85: UNKNOWN until the buffer
\* holds window_size samples, then the posture of the averaged gravity vector
classify_posture(samples, orientation) ==
    LET n == IF samples < posture_window_size THEN samples + 1 ELSE samples IN
    [kind |-> "FeatureVector", samples |-> n,
     posture |-> IF n < posture_window_size THEN "unknown" ELSE orientation]


(***************************************************************************)
(* AlertController and Buzzer (alerts/alert_controller.py, buzzer.py)      *)
(***************************************************************************)
cancellation_window == 10
escalation_threshold == 15
min_alert_interval == 30
impact_detection_threshold == 15
sitting_transition_window == 2
pre_fall_escalation == 5
\* _get_time_difference, lines 186-195: a placeholder that returns 0.0
get_time_difference == 0
\* one entry of alert_history
Event(type, st, reason) == [type |-> type, state |-> st, reason |-> reason]

\* Buzzer.start, Buzzer.stop and Buzzer.pulse
buzzer_start(c) == [c EXCEPT !.buzzer_active = TRUE]
buzzer_stop(c) ==
    IF c.buzzer_active
    THEN [c EXCEPT !.buzzer_active = FALSE, !.pulse_count = 0]
    ELSE c
buzzer_pulse(c, count) == [c EXCEPT !.pulse_count = c.pulse_count + count]

\* _is_rate_limited, lines 97-109
is_rate_limited(c) ==
    /\ c.last_notification_time # "None"
    /\ get_time_difference < min_alert_interval

\* _should_suppress_for_sleep, lines 111-132
should_suppress_for_sleep(st, posture, acceleration_magnitude) ==
    /\ posture = "lying"
    /\ ~(/\ acceleration_magnitude # NoValue
         /\ acceleration_magnitude # 0
         /\ acceleration_magnitude > impact_detection_threshold)
    /\ st \in {"PRE_FALL_WARNING", "HIGH_RISK", "MONITORING"}

\* _should_suppress_for_sitting_transition, lines 134-157: the controller
\* after the call and the value returned
should_suppress_for_sitting_transition(c, st, posture) ==
    IF st # "PRE_FALL_WARNING" \/ posture # "sitting"
    THEN [c |-> c, result |-> FALSE]
    ELSE IF c.last_sitting_transition = "None"
    THEN [c |-> [c EXCEPT !.last_sitting_transition = "set"],
          result |-> FALSE]
    ELSE [c |-> c, result |-> get_time_difference < sitting_transition_window]

\* _should_suppress_alert, lines 76-95
should_suppress_alert(c, st, posture, acceleration_magnitude) ==
    IF is_rate_limited(c) THEN [c |-> c, result |-> TRUE]
    ELSE IF should_suppress_for_sleep(st, posture, acceleration_magnitude)
    THEN [c |-> c, result |-> TRUE]
    ELSE should_suppress_for_sitting_transition(c, st, posture)

\* _log_suppressed_alert, lines 159-184
log_suppressed_alert(c, st, posture, acceleration_magnitude) ==
    LET s == should_suppress_for_sitting_transition(c, st, posture)
        reason ==
            (IF is_rate_limited(c) THEN {"rate_limited"} ELSE {})
            \cup (IF should_suppress_for_sleep(st, posture,
                                               acceleration_magnitude)
                  THEN {"sleep_suppression"} ELSE {})
            \cup (IF s.result THEN {"sitting_transition"} ELSE {})
    IN  [s.c EXCEPT !.alert_history =
            Append(s.c.alert_history, Event("suppressed", st, reason))]

\* _reset_alert_system, lines 372-381
reset_alert_system(c) ==
    buzzer_stop([c EXCEPT !.alert_active = FALSE, !.timer = 0,
                          !.last_alert_time = "None"])

\* _cancel_alert, lines 358-370
cancel_alert(c) ==
    IF c.alert_active
    THEN reset_alert_system([c EXCEPT !.alert_history =
            Append(c.alert_history, Event("cancelled", c.current_state, {}))])
    ELSE c

\* _start_alert_sequence, lines 317-340
start_alert_sequence(c) ==
    LET d == [c EXCEPT !.alert_active = TRUE, !.last_alert_time = "set",
                       !.last_notification_time = "set",
                       !.alert_history = Append(c.alert_history,
                            Event("started", c.current_state, {}))]
    IN  IF d.current_state = "ALERT" THEN buzzer_start(d)
        ELSE IF d.current_state = "PRE_FALL_WARNING" THEN buzzer_pulse(d, 1)
        ELSE IF d.current_state \in {"HIGH_RISK", "MONITORING"}
        THEN buzzer_pulse(d, 2)
        ELSE d

\* _escalate_alert, lines 224-240, with _send_external_alerts
escalate_alert(c) ==
    IF c.timer >= cancellation_window /\ ~c.alert_sent
    THEN [c EXCEPT !.alert_history =
                Append(c.alert_history, Event("escalated", c.current_state, {})),
             !.external_alerts = c.external_alerts + 1,
             !.alert_sent = TRUE]
    ELSE c

\* _escalate_to_full_alert, lines 342-356
escalate_to_full_alert(c) ==
    buzzer_start([c EXCEPT !.alert_history =
            Append(c.alert_history, Event("escalated", c.current_state, {})),
         !.timer = 0])

\* _handle_alert_state, lines 197-222
handle_alert_state(c, user_response) ==
    LET d == IF ~c.alert_active THEN start_alert_sequence(c)
             ELSE [c EXCEPT !.timer = c.timer + 1]
    IN  IF user_response = "cancel" THEN cancel_alert(d)
        ELSE escalate_alert(d)

\* _handle_pre_fall_warning, lines 261-293
handle_pre_fall_warning(c, user_response) ==
    IF ~c.alert_active
    THEN LET d == buzzer_pulse(start_alert_sequence(c), 1) IN
         IF user_response = "cancel" THEN cancel_alert(d)
         ELSE LET e == [d EXCEPT !.timer = d.timer + 1] IN
              IF e.timer >= pre_fall_escalation
              THEN escalate_to_full_alert(e) ELSE e
    ELSE LET d == [c EXCEPT !.timer = c.timer + 1] IN
         IF user_response = "cancel" THEN cancel_alert(d)
         ELSE IF d.timer >= pre_fall_escalation
         THEN escalate_to_full_alert(d) ELSE d

\* _handle_monitoring_state, lines 295-315
handle_monitoring_state(c, user_response) ==
    IF ~c.alert_active
    THEN LET d == start_alert_sequence(c)
             e == [d EXCEPT !.timer = d.timer + 1]
         IN  IF user_response = "cancel" THEN cancel_alert(e)
             ELSE IF e.timer >= escalation_threshold
             THEN escalate_to_full_alert(e) ELSE e
    ELSE c

\* handle, lines 48-74
handle(c0, st, user_response, posture, acceleration_magnitude) ==
    LET c == [c0 EXCEPT !.current_state = st]
        s == should_suppress_alert(c, st, posture, acceleration_magnitude)
    IN  IF s.result
        THEN log_suppressed_alert(s.c, st, posture, acceleration_magnitude)
        ELSE IF st = "ALERT" THEN handle_alert_state(s.c, user_response)
        ELSE IF st = "PRE_FALL_WARNING"
        THEN handle_pre_fall_warning(s.c, user_response)
        ELSE IF st \in {"HIGH_RISK", "MONITORING"}
        THEN handle_monitoring_state(s.c, user_response)
        ELSE reset_alert_system(s.c)

(***************************************************************************)
(* AlertController: its calls                                              *)
(***************************************************************************)
\* the arguments of a handle call: the machine state, the user's answer
\* (None or cancel), the posture, and the magnitude (None, at rest, an
\* impact above impact_detection_threshold)
HandleStates == {"NORMAL", "MONITORING", "PRE_FALL_WARNING", "ALERT"}
Responses == {"None", "cancel"}
HandlePostures == {"lying", "sitting"}
HandleMagnitudes == {NoValue, 10, 20}
RunPostures == {"lying", "sitting", "None"}
RunMagnitudes == {NoValue, 10, 20}

\* the variables a handle call leaves alone
controllerFrame == <<fsmVars, obsVars, limiterVars, alertVars,
                     magnitude_buffer, inactivity_buffer, accel_samples,
                     prev_magnitude, ticks, episode, trail, streamVars,
                     mlVars, safetyVars>>

\* one handle call
HandleWith(st, user_response, posture, acceleration_magnitude) ==
    /\ controller' = handle(controller, st, user_response, posture,
                            acceleration_magnitude)
    /\ handle_call' =
            [called |-> TRUE, state |-> st, user_response |-> user_response,
             posture |-> posture, acceleration |-> acceleration_magnitude,
             before |-> controller,
             run |-> IF st = "ALERT" /\ user_response # "cancel"
                     THEN (IF handle_call.called THEN handle_call.run ELSE 0)
                          + 1
                     ELSE 0]
    /\ handles' = handles + 1
    /\ UNCHANGED controllerFrame

\* handle called with any state, answer, posture and magnitude
Handle ==
    \E st \in HandleStates, user_response \in Responses,
       posture \in HandlePostures, acceleration_magnitude \in HandleMagnitudes :
        /\ handles < MaxHandles
        /\ HandleWith(st, user_response, posture, acceleration_magnitude)

NextController == Handle

SpecController == InitFSM /\ [][NextController]_vars

\* handle called while the machine stays in ALERT and the user gives no answer
HandleAlert ==
    \E posture \in RunPostures, acceleration_magnitude \in RunMagnitudes :
        /\ handles < MaxAlertRun
        /\ HandleWith("ALERT", "None", posture, acceleration_magnitude)

NextAlertRun == HandleAlert

SpecAlertRun == InitFSM /\ [][NextAlertRun]_vars

(***************************************************************************)
(* run_normal_mode (main.py)                                               *)
(***************************************************************************)
emergency_magnitude == 20

\* ComfortRules.can_alert: its answers
ComfortAnswers == BOOLEAN

\* a path of machine states, extended by the state after one more update
Extend(path, st) ==
    IF path # <<>> /\ path[Len(path)] = st THEN path ELSE Append(path, st)

\* The episode after one loop iteration: it starts with a single impact
\* sample (magnitude 25) taken in NORMAL, goes on through the still samples
\* (magnitude 0) with posture lying (stages 2, 3, 4) and then lasts as long
\* as the machine is in ALERT.
next_episode(e, before, after, magnitude, prev, posture, fall, emergency) ==
    LET sent == [fall_alerts |-> IF fall THEN 1 ELSE 0,
                 emergency_alerts |-> IF emergency THEN 1 ELSE 0]
    IN  IF magnitude = 25 /\ prev # 25
           /\ before = "NORMAL"
        THEN [stage |-> 1, path |-> Extend(<<before>>, after),
              fall_alerts |-> sent.fall_alerts,
              emergency_alerts |-> sent.emergency_alerts]
        ELSE IF \/ (e.stage \in 1..3 /\ magnitude = 0
                    /\ posture = "lying")
                \/ (e.stage = 4 /\ after = "ALERT")
        THEN [stage |-> IF e.stage < 4 THEN e.stage + 1 ELSE 4,
              path |-> Extend(e.path, after),
              fall_alerts |-> e.fall_alerts + sent.fall_alerts,
              emergency_alerts |-> e.emergency_alerts + sent.emergency_alerts]
        ELSE NoEpisode

\* One iteration of the loop of run_normal_mode, lines 149-192, from the
\* magnitude of the sample and the posture the classifier returned.
Iteration(magnitude, posture, instability_risk) ==
    LET fd == fall_detector(magnitude_buffer, magnitude)
        ia == is_inactive(inactivity_buffer, magnitude, prev_magnitude)
        n == update(fsm, fd.spike, posture, ia.inactive,
                    fd.post_fall_state, instability_risk)
    IN
    /\ magnitude_buffer' = fd.buffer
    /\ inactivity_buffer' = ia.buffer
    /\ state' = n.state
    /\ fall_timer' = n.fall_timer
    /\ inactivity_count' = n.inactivity_count
    /\ risk_state' = n.risk_state
    /\ risk_state_timer' = n.risk_state_timer
    /\ controller' = handle(controller, n.state, "None", "None", NoValue)
    \* lines 173-178: comfort.can_alert() is asked in ALERT only
    /\ IF n.state = "ALERT"
       THEN \E can_alert \in ComfortAnswers :
                episode' = next_episode(episode, state, n.state,
                    magnitude, prev_magnitude, posture, can_alert,
                    can_alert /\ magnitude > emergency_magnitude)
       ELSE episode' = next_episode(episode, state, n.state, magnitude,
                    prev_magnitude, posture, FALSE, FALSE)
    /\ prev_magnitude' = magnitude
    /\ ticks' = ticks + 1
    /\ trail' = Extend(trail, n.state)
    /\ UNCHANGED <<obsVars, limiterVars, alertVars>>

\* an iteration whose sample is given by its magnitude and by the posture of
\* the averaged gravity vector
Tick ==
    \E magnitude \in Magnitudes, orientation \in Postures,
       instability_risk \in MainRisks :
        LET pc == classify_posture(accel_samples, orientation) IN
        /\ ticks < MaxTicks
        /\ accel_samples' = pc.samples
        /\ Iteration(magnitude, pc.posture, instability_risk)
        /\ UNCHANGED extVars

NextMain == Tick

SpecMain == InitFSM /\ [][NextMain]_vars

(***************************************************************************)
(* run_normal_mode fed with acceleration samples                           *)
(***************************************************************************)
\* cos(20 deg)^2 and cos(50 deg)^2, in 1/100000
cos2_standing == 88302
cos2_sitting == 41318

\* (ax, ay, az) of a sample: at rest upright (1 g on the z axis), at rest
\* lying flat, at rest leaning, an impact
RestUpright == <<0, 0, 10>>
Samples == {RestUpright, <<10, 0, 0>>, <<6, 0, 8>>, <<0, 0, 25>>}
StreamRisks == {29, 30}

\* the integer square root
isqrt(x) == CHOOSE r \in 0..x : r * r <= x /\ x < (r + 1) * (r + 1)

\* calculate_magnitude (motion_analysis.py)
calculate_magnitude(a) == isqrt(a[1] * a[1] + a[2] * a[2] + a[3] * a[3])

RECURSIVE AxisSum(_, _)
AxisSum(q, k) == IF q = <<>> THEN 0 ELSE Head(q)[k] + AxisSum(Tail(q), k)

\* A variant that takes the x axis for the vertical one.
classify_samples_x_vertical(buffer, sample) ==
    LET b == DequeAppend(buffer, sample, posture_window_size)
        gz2 == AxisSum(b, 1) * AxisSum(b, 1)
        h2 == AxisSum(b, 2) * AxisSum(b, 2) + AxisSum(b, 3) * AxisSum(b, 3)
    IN  [buffer |-> b,
         posture |->
            IF Len(b) < posture_window_size THEN "unknown"
            ELSE IF h2 + gz2 = 0 THEN "unknown"
            ELSE IF 100000 * gz2 > cos2_standing * (h2 + gz2) /\ 9 * h2 < gz2
            THEN "standing"
            ELSE IF 100000 * gz2 > cos2_sitting * (h2 + gz2)
                    /\ 4 * h2 < 9 * gz2
            THEN "sitting"
            ELSE "lying"]

\* PostureClassifier.classify_posture, lines 25-85, on the buffered samples.
\* The averaged vector is classified by its direction, so the sums stand for
\* the averages: with h the horizontal and gz the vertical component,
\*   vertical_angle < 20    is  gz^2 > cos(20)^2 (h^2 + gz^2)
\*   horizontal_ratio < 1/4 is  3 h < |gz|
\*   vertical_angle < 50    is  gz^2 > cos(50)^2 (h^2 + gz^2)
\*   horizontal_ratio < 0.6 is  2 h < 3 |gz|
classify_samples(buffer, sample) ==
    LET b == DequeAppend(buffer, sample, posture_window_size)
        gz2 == AxisSum(b, 3) * AxisSum(b, 3)
        h2 == AxisSum(b, 1) * AxisSum(b, 1) + AxisSum(b, 2) * AxisSum(b, 2)
    IN  [buffer |-> b,
         posture |->
            IF Len(b) < posture_window_size THEN "unknown"
            ELSE IF h2 + gz2 = 0 THEN "unknown"
            ELSE IF 100000 * gz2 > cos2_standing * (h2 + gz2) /\ 9 * h2 < gz2
            THEN "standing"
            ELSE IF 100000 * gz2 > cos2_sitting * (h2 + gz2)
                    /\ 4 * h2 < 9 * gz2
            THEN "sitting"
            ELSE "lying"]

\* an iteration whose sample is given by its acceleration vector
SampleTick ==
    \E sample \in Samples, instability_risk \in StreamRisks :
        LET pc == classify_samples(accel_buffer, sample) IN
        /\ ticks < MaxStreamTicks
        /\ accel_buffer' = pc.buffer
        /\ accel_samples' = Len(pc.buffer)
        /\ last_posture' = pc.posture
        /\ steady' = (/\ steady
                      /\ sample = RestUpright
                      /\ instability_risk < low_risk_threshold)
        /\ Iteration(calculate_magnitude(sample), pc.posture, instability_risk)
        /\ UNCHANGED <<mlVars, callVars, safetyVars>>

NextStream == SampleTick

SpecStream == InitFSM /\ [][NextStream]_vars

(***************************************************************************)
(* FeatureExtractor (detection/feature_extraction.py)                      *)
(*                                                                         *)
(* Of the FeatureVector the model keeps the statistics of the magnitude    *)
(* window (mean and std in hundredths), the posture fields and the jerk;   *)
(* the gyroscope and inactivity fields are left out.                       *)
(***************************************************************************)
feature_window_size == 50
min_current_samples == 10
FeedSamples == {RestUpright, <<0, 0, 25>>}

\* what get_current_features returns when it has no vector
NotReady == [kind |-> "None"]

\* _extract_features, lines 345-361 and 439-450: the magnitude statistics of
\* the FeatureVector, with the number of samples they were taken over
extract_features(buffer, magnitude) ==
    LET n == Len(buffer) IN
    IF n >= 2
    THEN LET sum == SeqSum(buffer)
             squares == SeqSum([i \in 1..n |-> buffer[i] * buffer[i]])
         IN [kind |-> "FeatureVector", samples |-> n,
             magnitude_mean |-> (100 * sum) \div n,
             magnitude_std |-> isqrt((10000 * (n * squares - sum * sum))
                                     \div (n * n)),
             magnitude_min |-> SeqMin(buffer),
             magnitude_max |-> SeqMax(buffer),
             magnitude_range |-> SeqMax(buffer) - SeqMin(buffer)]
    ELSE IF n = 1
    THEN [kind |-> "FeatureVector", samples |-> n,
          magnitude_mean |-> 100 * buffer[1],
          magnitude_std |-> 0, magnitude_min |-> buffer[1],
          magnitude_max |-> buffer[1], magnitude_range |-> 0]
    ELSE [kind |-> "FeatureVector", samples |-> n,
          magnitude_mean |-> 100 * magnitude,
          magnitude_std |-> 100 * magnitude, magnitude_min |-> magnitude,
          magnitude_max |-> magnitude, magnitude_range |-> magnitude]

\* PostureClassifier.__init__ (detection/posture_classifier.py), lines 24-32
standing_threshold == 8
sitting_threshold == 6
lying_threshold == 4
fall_threshold == 15
\* FeatureExtractor.__init__, lines 164-176, and
\* PreFallInstabilityDetector.__init__, line 49
posture_window == 10
transition_times_size == 20
jerk_history_size == 10

\* ax**2 + ay**2 + az**2
square_sum(a) == a[1] * a[1] + a[2] * a[2] + a[3] * a[3]

\* the change from sample prev to sample a, axis by axis
Delta(a, prev) == <<a[1] - prev[1], a[2] - prev[2], a[3] - prev[3]>>

\* time.time() as PreFallInstabilityDetector.update reads it: the clock of
\* the model counts the seconds from a reading of epoch, which is positive
epoch == 1
time_time(t) == epoch + t

\* PostureClassifier.classify_posture, lines 34-64, with the gyroscope
\* values g; the square roots are compared through their squares
PostureClassifier_classify_posture(a, g) ==
    IF square_sum(g) > fall_threshold * fall_threshold THEN "falling"
    ELSE IF square_sum(a) >= standing_threshold * standing_threshold
    THEN "standing"
    ELSE IF square_sum(a) >= sitting_threshold * sitting_threshold
    THEN "sitting"
    ELSE IF square_sum(a) >= lying_threshold * lying_threshold THEN "lying"
    ELSE "unknown"

\* PreFallInstabilityDetector.update, lines 52-98, for the detector d at the
\* time timestamp (seconds): the jerk in m/s^3, rounded down, and the
\* detector after the call.  The score of lines 95-98 needs window_size
\* samples, which no run of the model feeds; below that update returns 0.0.
instability_update(d, a, timestamp) ==
    LET dt == timestamp - d.prev_timestamp
        jerk_magnitude ==
            IF d.prev_timestamp > 0
            THEN IF dt > 0
                 THEN isqrt(square_sum(Delta(a, d.prev_accel))) \div dt
                 ELSE 0
            ELSE 0
    IN [jerk |-> jerk_magnitude,
        detector |-> [prev_accel |-> a, prev_timestamp |-> timestamp,
                      jerk_history |-> DequeAppend(d.jerk_history,
                                                   jerk_magnitude,
                                                   jerk_history_size),
                      samples |-> IF d.samples < feature_window_size
                                  THEN d.samples + 1 ELSE d.samples]]

\* _track_posture_transitions, lines 298-324: the fields of the extractor x
\* after the posture of a sample is recorded (the score it returns is
\* dropped by update)
track_posture_transitions(x, current_posture, timestamp) ==
    LET history == DequeAppend(x.posture_history, current_posture,
                               posture_window)
    IN IF Len(history) > 1
       THEN IF history[Len(history) - 1] # current_posture
            THEN [x EXCEPT !.posture_history = history,
                           !.posture_transition_times =
                               DequeAppend(@, timestamp,
                                           transition_times_size),
                           !.current_posture_start_time = timestamp]
            ELSE [x EXCEPT !.posture_history = history]
       ELSE [x EXCEPT !.posture_history = history,
                      !.current_posture_start_time = timestamp]

\* a score that counts every posture of the window against the stability,
\* the one held throughout included
posture_stability_score_strict(history) ==
    IF Len(history) >= posture_window
    THEN ((posture_window - Cardinality(Range(history))) * 1000)
             \div posture_window
    ELSE 1000

\* _extract_features, lines 373-380: the score in thousandths
posture_stability_score(history) ==
    IF Len(history) >= posture_window
    THEN LET recent_postures == SubSeq(history,
                                       Len(history) - posture_window + 1,
                                       Len(history))
             unique_postures == Cardinality(Range(recent_postures))
         IN ((posture_window - unique_postures + 1) * 1000)
                \div posture_window
    ELSE 1000

\* _extract_features, lines 422-428: dt is the constant 0.1 whatever the
\* timestamps are; the jerk in m/s^3, rounded down
jerk_magnitude(a, prev) == isqrt(100 * square_sum(Delta(a, prev)))

\* update, lines 216-269, for a sample with the timestamp it carries (tenths
\* of a second) while time.time() reads clock: the sample is stored, the
\* detectors are updated and a vector is returned.  No gyroscope values are
\* passed to the posture classifier (line 247).
UpdateWith(sample, timestamp, clock) ==
    LET magnitude == calculate_magnitude(sample)
        buffer == DequeAppend(feature_magnitudes, magnitude,
                              feature_window_size)
        unstable == instability_update(extractor.instability, sample, clock)
        current_posture == PostureClassifier_classify_posture(sample,
                                                              <<0, 0, 0>>)
        tracked == track_posture_transitions(extractor, current_posture,
                                             timestamp)
        repeated == feature_call.called /\ feature_call.sample = sample
    IN /\ feature_magnitudes' = buffer
       /\ sample_count' = sample_count + 1
       /\ extraction' = [called |-> TRUE, op |-> "update",
                         fed |-> sample_count + 1,
                         result |-> extract_features(buffer, magnitude)]
       /\ extractor' =
              [tracked EXCEPT !.start_time = IF @ = 0 THEN timestamp ELSE @,
                              !.prev_accel = sample,
                              !.instability = unstable.detector]
       /\ feature_call' =
              [called |-> TRUE, fed |-> sample_count + 1,
               sample |-> sample, timestamp |-> timestamp,
               previous_sample |-> IF feature_call.called
                                   THEN feature_call.sample ELSE <<>>,
               previous_timestamp |-> IF feature_call.called
                                      THEN feature_call.timestamp
                                      ELSE NoValue,
               clock |-> clock,
               previous_clock |-> extractor.instability.prev_timestamp,
               instability_jerk |-> unstable.jerk,
               jerk_magnitude |-> jerk_magnitude(sample,
                                                 extractor.prev_accel),
               current_posture |-> current_posture,
               posture_stability_score |->
                   posture_stability_score(tracked.posture_history),
               same_run |-> IF ~repeated THEN 1
                            ELSE IF feature_call.same_run < posture_window
                            THEN feature_call.same_run + 1
                            ELSE posture_window,
               run_postures |-> IF repeated
                                THEN feature_call.run_postures
                                         \cup {current_posture}
                                ELSE {current_posture},
               error |-> FALSE]

\* update called without a timestamp: line 230 takes sample_count * 0.1
FeatureUpdate ==
    \E sample \in FeedSamples :
        /\ sample_count < MaxFeeds
        /\ UpdateWith(sample, sample_count, time_time(now))
        /\ UNCHANGED <<pipelineVars, engineVars, detectorVars>>

\* get_current_features, lines 480-502
get_current_features(buffer) ==
    IF Len(buffer) < min_current_samples THEN NotReady
    ELSE IF buffer # <<>> THEN extract_features(buffer, buffer[Len(buffer)])
    ELSE NotReady

\* past its first test the call also feeds the last sample to the
\* instability detector once more (line 494)
GetCurrentFeatures ==
    /\ extractor.instability.samples <= MaxFeeds
    /\ extraction' = [called |-> TRUE, op |-> "get_current_features",
                      fed |-> sample_count,
                      result |-> get_current_features(feature_magnitudes)]
    /\ extractor' =
           IF Len(feature_magnitudes) < min_current_samples THEN extractor
           ELSE [extractor EXCEPT !.instability =
                     instability_update(@, extractor.prev_accel,
                                        time_time(now)).detector]
    /\ UNCHANGED <<feature_magnitudes, sample_count, feature_call,
                   pipelineVars, engineVars, detectorVars>>

NextFeatures == FeatureUpdate \/ GetCurrentFeatures

SpecFeatures == InitFSM /\ [][NextFeatures]_vars

\* the samples and timestamps a caller passes to update: a timestamp can be
\* earlier than, equal to or later than the one before it, and the clock
\* may or may not have moved since the call before
TimedSamples == {RestUpright, <<0, 3, 14>>}
TimeDeltas == {-1, 0, 1}
ClockTicks == {0, 1}

\* update called with a timestamp
TimedUpdate ==
    \E sample \in TimedSamples, d \in TimeDeltas, tick \in ClockTicks :
        LET last == IF feature_call.called THEN feature_call.timestamp
                    ELSE 0
        IN /\ sample_count < MaxTimedFeeds
           /\ last + d >= 0
           /\ now' = now + tick
           /\ UpdateWith(sample, last + d, time_time(now + tick))
           /\ UNCHANGED <<fsmVars, obsVars, minute_alerts, hour_alerts,
                          last_req, requests, alertVars, mainVars,
                          streamVars, callVars, safetyVars, engineVars,
                          detectorVars>>

NextTimed == TimedUpdate

SpecTimed == InitFSM /\ [][NextTimed]_vars

\* samples at rest in two postures (standing, lying)
PostureSamples == {RestUpright, <<0, 0, 5>>}

\* update called without a timestamp on a stream of samples at rest
SteadyUpdate ==
    \E sample \in PostureSamples :
        /\ sample_count < MaxSteadyFeeds
        /\ UpdateWith(sample, sample_count, time_time(now))
        /\ UNCHANGED <<pipelineVars, engineVars, detectorVars>>

NextSteady == SteadyUpdate

SpecSteady == InitFSM /\ [][NextSteady]_vars


(***************************************************************************)
(* DecisionEngine (detection/decision_engine.py)                           *)
(*                                                                         *)
(* Feature values and rule thresholds are in tenths, confidences in        *)
(* thousandths, rule weights in hundredths, the combined score and         *)
(* threshold_adjustment_factor in millionths.  A feature value that is     *)
(* not a number (None) is written NoValue.  A decision's timestamp is the  *)
(* clock value now; str(timestamp), the decision id, is written as the     *)
(* timestamp itself.  processing_time is left out of the decision.         *)
(***************************************************************************)
history_maxlen == 1000
ml_weight == 6
rule_weight == 4
emergency_score == 800000
fall_score == 600000
health_score == 700000
pre_fall_score == 400000
flag_confidence == 800
ml_mention == 500
recent_maxlen == 10
recent_window == 5
min_recent == 3
max_factor == 2000000
min_factor == 500000

Min(a, b) == IF a <= b THEN a ELSE b
Max(a, b) == IF a >= b THEN a ELSE b

NumericFeatures == {"accel_magnitude_max", "jerk_magnitude_max",
                    "anomaly_score", "inactivity_duration"}
FlagFeatures == {"hr_anomaly_detected", "spo2_anomaly_detected"}

\* DecisionRule.evaluate, lines 57-106: triggered, confidence and reasoning.
\* Comparing a value that is not a number with the threshold raises, and the
\* except branch sets all three results.
evaluate(rule, features) ==
    IF rule.feature \in NumericFeatures
    THEN LET value == features[rule.feature] IN
         IF value = NoValue
         THEN [triggered |-> FALSE, confidence |-> 0,
               reasoning |-> Reasoning("Rule evaluation error", value,
                                       rule.threshold)]
         ELSE [triggered |-> value > rule.threshold,
               confidence |-> Min(1000, (1000 * value) \div rule.threshold),
               reasoning |-> Reasoning("exceeds threshold", value,
                                       rule.threshold)]
    ELSE IF rule.feature \in FlagFeatures
    THEN LET flag == features[rule.feature] IN
         [triggered |-> flag,
          confidence |-> IF flag THEN flag_confidence ELSE 0,
          reasoning |-> Reasoning(IF flag THEN "anomaly detected"
                                  ELSE "No anomaly", 0, 0)]
    ELSE [triggered |-> FALSE, confidence |-> 0, reasoning |-> NoReasoning]

\* evaluate, lines 108-112, and _evaluate_rules, lines 262-264: one rule
\* object after its evaluation
evaluated(rule_state, rule, features) ==
    LET r == evaluate(rule, features) IN
    [last_triggered |-> r.triggered,
     trigger_count |-> rule_state.trigger_count
                       + (IF r.triggered THEN 1 ELSE 0),
     confidence |-> r.confidence,
     reasoning |-> r.reasoning]

\* the first rule whose evaluation raises, Len(rules) + 1 if none does
FirstError(features) ==
    LET bad == {i \in DOMAIN rules :
                    /\ rules[i].feature \in NumericFeatures
                    /\ features[rules[i].feature] = NoValue}
    IN IF bad = {} THEN Len(rules) + 1
       ELSE CHOOSE i \in bad : \A j \in bad : i <= j

\* A variant in which the error of a rule ends the evaluation of the table.
evaluate_rules_stopping(rule_states, features) ==
    [i \in DOMAIN rules |->
        IF i < FirstError(features)
        THEN evaluated(rule_states[i], rules[i], features)
        ELSE rule_states[i]]

\* _evaluate_rules, lines 257-267
evaluate_rules(rule_states, features) ==
    [i \in DOMAIN rules |-> evaluated(rule_states[i], rules[i], features)]

\* the indices of the triggered rules, in the order of the table
RECURSIVE Triggered(_, _)
Triggered(rule_states, i) ==
    IF i > Len(rules) THEN <<>>
    ELSE (IF rule_states[i].last_triggered THEN <<i>> ELSE <<>>)
         \o Triggered(rule_states, i + 1)

\* a score in millionths scaled by a factor in millionths
Scaled(score, factor) ==
    (score * (factor \div 1000) + (score * (factor % 1000)) \div 1000)
        \div 1000

\* _combine_evidence, lines 269-289: rule_confidence and combined_score in
\* millionths
combine_evidence(factor, ml_results, rule_states) ==
    LET triggered_rules == Triggered(rule_states, 1)
        weighted == SeqSum([k \in DOMAIN triggered_rules |->
                        rule_states[triggered_rules[k]].confidence
                        * rules[triggered_rules[k]].weight])
        weights == SeqSum([k \in DOMAIN triggered_rules |->
                        rules[triggered_rules[k]].weight])
        rule_confidence == IF triggered_rules # <<>>
                           THEN (1000 * weighted) \div weights ELSE 0
        score == (1000 * ml_results.confidence * ml_weight
                  + rule_confidence * rule_weight) \div 10
    IN [combined_score |-> Min(unit_factor, Scaled(score, factor)),
        ml_confidence |-> ml_results.confidence,
        rule_confidence |-> rule_confidence]

\* whether a rule of the given names triggered
AnyTriggered(rule_states, names) ==
    \E i \in DOMAIN rules :
        rules[i].name \in names /\ rule_states[i].last_triggered

\* _determine_decision_type, lines 291-327
determine_decision_type(combined_score, ml_results, rule_states) ==
    IF \/ ml_results.final_decision = "fall_detected"
       \/ AnyTriggered(rule_states, {"high_impact_fall", "sudden_jerk"})
    THEN IF combined_score >= emergency_score
         THEN <<"emergency_response", "critical">>
         ELSE IF combined_score >= fall_score
         THEN <<"fall_detected", "high">>
         ELSE <<"pre_fall_warning", "medium">>
    ELSE IF AnyTriggered(rule_states, {"heart_rate_anomaly", "spo2_anomaly",
                                       "high_anomaly_score"})
    THEN IF combined_score >= health_score
         THEN <<"health_alert", "medium">>
         ELSE <<"health_alert", "low">>
    ELSE IF /\ AnyTriggered(rule_states, {"prolonged_inactivity",
                                          "orientation_change"})
            /\ combined_score >= pre_fall_score
    THEN <<"pre_fall_warning", "low">>
    ELSE <<"no_action", "low">>

\* the format .1% of a score in millionths: the percentage in tenths
Percent(score) == (score + 500) \div 1000

\* _generate_explanation, lines 329-363: the parts joined into the string
generate_explanation(decision_type, ml_results, rule_states, combined_score) ==
    LET triggered_rules == Triggered(rule_states, 1) IN
    [statement |->
        CASE decision_type = "emergency_response" ->
                "EMERGENCY: Fall detected with high confidence"
          [] decision_type = "fall_detected" ->
                "Fall detected with moderate-high confidence"
          [] decision_type = "pre_fall_warning" ->
                "Pre-fall warning: Instability detected"
          [] decision_type = "health_alert" -> "Health anomaly detected"
          [] OTHER -> "No significant issues detected",
     ml |-> IF ml_results.confidence > ml_mention
            THEN Percent(1000 * ml_results.confidence) ELSE NoValue,
     rules |-> [k \in 1..Min(3, Len(triggered_rules)) |->
                    rules[triggered_rules[k]].name],
     overall |-> Percent(combined_score)]

\* A variant that does not hold the factor at its lower limit.
adjust_thresholds_unclamped(factor, recent_decisions) ==
    LET n == Len(recent_decisions)
        recent == SubSeq(recent_decisions, Max(1, n - recent_window + 1), n)
        false_positive_count ==
            Cardinality({k \in DOMAIN recent : recent[k] = "false_positive"})
    IN IF Len(recent) >= min_recent
       THEN IF false_positive_count >= 2
            THEN Min(max_factor, (factor * 11) \div 10)
            ELSE IF false_positive_count = 0
            THEN (factor * 95) \div 100
            ELSE factor
       ELSE factor

\* _adjust_thresholds, lines 391-408: the new threshold_adjustment_factor
adjust_thresholds(factor, recent_decisions) ==
    LET n == Len(recent_decisions)
        recent == SubSeq(recent_decisions, Max(1, n - recent_window + 1), n)
        false_positive_count ==
            Cardinality({k \in DOMAIN recent : recent[k] = "false_positive"})
    IN IF Len(recent) >= min_recent
       THEN IF false_positive_count >= 2
            THEN Min(max_factor, (factor * 11) \div 10)
            ELSE IF false_positive_count = 0
            THEN Max(min_factor, (factor * 95) \div 100)
            ELSE factor
       ELSE factor

\* _summarize_features, lines 365-375
summarize_features(features) ==
    [accel_magnitude_max |-> features.accel_magnitude_max,
     jerk_magnitude_max |-> features.jerk_magnitude_max,
     anomaly_score |-> features.anomaly_score,
     inactivity_duration |-> features.inactivity_duration,
     hr_anomaly |-> features.hr_anomaly_detected,
     spo2_anomaly |-> features.spo2_anomaly_detected]

\* _update_context, lines 377-389, without the threshold adjustment
update_context(context, decision) ==
    [last_decision_time |-> decision.timestamp,
     last_decision_type |-> decision.decision_type,
     recent_urgency |-> decision.urgency_level,
     fall_alerts_count |->
        context.fall_alerts_count
        + (IF decision.decision_type \in {"fall_detected",
                                          "emergency_response"}
           THEN 1 ELSE 0)]

\* make_decision, lines 192-255: the engine after the call and the decision
\* returned
make_decision(e, features, ml_results, timestamp) ==
    LET rule_states == evaluate_rules(e.rule_states, features)
        evidence == combine_evidence(e.threshold_adjustment_factor,
                                     ml_results, rule_states)
        verdict == determine_decision_type(evidence.combined_score,
                                           ml_results, rule_states)
        triggered_rules == Triggered(rule_states, 1)
        decision ==
            [timestamp |-> timestamp,
             decision_type |-> verdict[1],
             urgency_level |-> verdict[2],
             confidence |-> evidence.combined_score,
             ml_confidence |-> evidence.ml_confidence,
             rule_confidence |-> evidence.rule_confidence,
             explanation |-> generate_explanation(verdict[1], ml_results,
                                 rule_states, evidence.combined_score),
             triggered_rules |-> [k \in DOMAIN triggered_rules |->
                                     rules[triggered_rules[k]].name],
             rule_details |-> [i \in DOMAIN rules |->
                                 [name |-> rules[i].name,
                                  triggered |-> rule_states[i].last_triggered,
                                  confidence |-> rule_states[i].confidence,
                                  reasoning |-> rule_states[i].reasoning]],
             ml_results |-> ml_results,
             features_summary |-> summarize_features(features),
             context |-> e.current_context,
             feedback |-> NoCall]
        recent_decisions == DequeAppend(e.recent_decisions, verdict[1],
                                        recent_maxlen)
    IN [engine |->
            [e EXCEPT !.rule_states = rule_states,
                      !.decision_history =
                          DequeAppend(e.decision_history, decision,
                                      history_maxlen),
                      !.recent_decisions = recent_decisions,
                      !.current_context =
                          update_context(e.current_context, decision),
                      !.threshold_adjustment_factor =
                          adjust_thresholds(e.threshold_adjustment_factor,
                                            recent_decisions)],
        decision |-> decision]

\* the index in decision_history of the first decision with the given id,
\* 0 if there is none
FindDecision(history, decision_id) ==
    LET found == {i \in DOMAIN history : history[i].timestamp = decision_id}
    IN IF found = {} THEN 0 ELSE CHOOSE i \in found : \A j \in found : i <= j

\* update_feedback, lines 427-448
update_feedback(e, decision_id, correct, actual_outcome, feedback_time) ==
    LET i == FindDecision(e.decision_history, decision_id) IN
    IF i = 0 THEN e
    ELSE LET fall == e.decision_history[i].decision_type
                        \in {"fall_detected", "emergency_response"}
         IN [e EXCEPT !.decision_history[i].feedback =
                          [called |-> TRUE, correct |-> correct,
                           actual_outcome |-> actual_outcome,
                           feedback_time |-> feedback_time],
                      !.true_positive_rate =
                          IF correct /\ fall THEN @ + 1 ELSE @,
                      !.false_positive_rate =
                          IF ~correct /\ fall THEN @ + 1 ELSE @]

\* reset_engine, lines 450-462
reset_engine(e) ==
    [e EXCEPT !.decision_history = <<>>,
              !.recent_decisions = <<>>,
              !.current_context = NoContext,
              !.threshold_adjustment_factor = unit_factor,
              !.rule_states = [i \in DOMAIN rules |->
                                  [@[i] EXCEPT !.trigger_count = 0,
                                               !.last_triggered = FALSE]]]

(***************************************************************************)
(* DecisionEngine: its calls                                               *)
(***************************************************************************)
\* make_decision arguments: the features the rules read, and the detector's
\* output
FeatureInputs ==
    {[accel_magnitude_max |-> a, jerk_magnitude_max |-> 0,
      anomaly_score |-> 0, inactivity_duration |-> d,
      hr_anomaly_detected |-> h, spo2_anomaly_detected |-> FALSE] :
        a \in {0, 30, NoValue}, d \in {0, 60}, h \in BOOLEAN}
MlInputs ==
    {[final_decision |-> "no_fall", confidence |-> 0],
     [final_decision |-> "fall_detected", confidence |-> 900]}
Outcomes == {"None", "no_fall"}
DecisionTypes == {"fall_detected", "pre_fall_warning", "health_alert",
                  "emergency_response", "false_positive", "no_action"}
FallTypes == {"fall_detected", "emergency_response"}

\* the variables the engine's calls leave alone
engineFrame == <<fsmVars, obsVars, minute_alerts, hour_alerts, last_req,
                 requests, alertVars, mainVars, streamVars, featureVars,
                 detectorVars, callVars, safetyVars>>

\* one make_decision call at the time now
Decide(features, ml_results) ==
    LET r == make_decision(engine, features, ml_results, now) IN
    /\ engine' = r.engine
    /\ engine_call' = [called |-> TRUE, op |-> "make_decision",
                       features |-> features, ml_results |-> ml_results,
                       decision |-> r.decision,
                       factor_before |-> engine.threshold_adjustment_factor]
    /\ now' = now + 1
    /\ UNCHANGED engineFrame

\* one update_feedback call at the time now
Feedback(decision_id, correct, actual_outcome) ==
    LET i == FindDecision(engine.decision_history, decision_id) IN
    /\ engine' = update_feedback(engine, decision_id, correct,
                                 actual_outcome, now)
    /\ engine_call' = [called |-> TRUE, op |-> "update_feedback",
                       decision_id |-> decision_id, correct |-> correct,
                       decision_type |->
                           IF i = 0 THEN "None"
                           ELSE engine.decision_history[i].decision_type,
                       factor_before |-> engine.threshold_adjustment_factor]
    /\ now' = now + 1
    /\ UNCHANGED engineFrame

MakeDecision ==
    \E features \in FeatureInputs, ml_results \in MlInputs :
        /\ now < MaxEngineTime
        /\ Decide(features, ml_results)

UpdateFeedback ==
    \E decision_id \in 0..MaxEngineTime, correct \in BOOLEAN,
       actual_outcome \in Outcomes :
        /\ now < MaxEngineTime
        /\ Feedback(decision_id, correct, actual_outcome)

ResetEngine ==
    /\ now < MaxEngineTime
    /\ engine' = reset_engine(engine)
    /\ engine_call' = [called |-> TRUE, op |-> "reset_engine",
                       factor_before |-> engine.threshold_adjustment_factor]
    /\ now' = now + 1
    /\ UNCHANGED engineFrame

NextEngine == MakeDecision \/ UpdateFeedback \/ ResetEngine

SpecEngine == InitFSM /\ [][NextEngine]_vars

\* The engine over a long run: the same fall reported again and again,
\* feedback given at most once between two resets, on the last decision
ImpactFeatures ==
    {f \in FeatureInputs : /\ f.accel_magnitude_max = 30
                           /\ f.inactivity_duration = 0
                           /\ ~f.hr_anomaly_detected}
FallReports == {m \in MlInputs : m.final_decision = "fall_detected"}

RepeatedDecision ==
    \E features \in ImpactFeatures, ml_results \in FallReports :
        /\ now < MaxAdaptTime
        /\ Decide(features, ml_results)

LateFeedback ==
    \E correct \in BOOLEAN :
        /\ now < MaxAdaptTime
        /\ engine.decision_history # <<>>
        /\ \A i \in DOMAIN engine.decision_history :
                ~engine.decision_history[i].feedback.called
        /\ Feedback(engine.current_context.last_decision_time, correct,
                    "None")

LateReset ==
    /\ now < MaxAdaptTime
    /\ engine.decision_history # <<>>
    /\ engine' = reset_engine(engine)
    /\ engine_call' = [called |-> TRUE, op |-> "reset_engine",
                       factor_before |-> engine.threshold_adjustment_factor]
    /\ now' = now + 1
    /\ UNCHANGED engineFrame

NextAdapt == RepeatedDecision \/ LateFeedback \/ LateReset

SpecAdapt == InitFSM /\ [][NextAdapt]_vars

(***************************************************************************)
(* MultiLayerFallDetector (detection/multi_layer_fall_detection.py)        *)
(*                                                                         *)
(* Feature values are in tenths, confidences and probabilities in          *)
(* millionths, normalised values, importances and uncertainty in           *)
(* thousandths.  time.time() is boot_time + now.  The noise the scored     *)
(* layer draws is an input of the run.                                     *)
(***************************************************************************)
boot_time == 1000
fall_threshold_accel == 25
jerk_threshold == 150
orientation_threshold == 600
stability_threshold == 300
inactivity_threshold == 50
fall_cooldown == 10
impact_share == 400000
orientation_share == 300000
inactivity_share == 300000
layer_bar == 600000
fall_probability_threshold == 700000
uncertainty_threshold == 300
max_anomaly_uncertainty == 300
max_uncertainty == 500
min_inactivity_duration == 30
validator_recovery_threshold == 5
stress_anomaly_score == 10
validation_inactivity_share == 400000
validation_stress_share == 300000
validation_recovery_share == 300000
validation_bar == 500000
threshold_weight == 4
classifier_weight == 6
layer_confidence_bar == 500000
final_bar == 600000
detection_maxlen == 100

LowActivity == {"very_low", "low"}

\* ThresholdFallDetector._classify_fall_type, lines 146-164
classify_fall_type(features) ==
    IF /\ Abs(features.accel_x_mean) > Abs(features.accel_y_mean)
       /\ Abs(features.accel_x_mean) > Abs(features.accel_z_mean)
    THEN "side_fall"
    ELSE IF features.accel_y_mean < -10 THEN "forward_fall"
    ELSE IF features.accel_y_mean > 10 THEN "backward_fall"
    ELSE IF Abs(features.pitch_mean) > 450 \/ Abs(features.roll_mean) > 450
    THEN "vertical_fall"
    ELSE "unknown_fall"

\* the level of a severity score in thousandths
SeverityLevel(score, critical) ==
    IF score >= critical THEN "critical"
    ELSE IF score >= 2000 THEN "high"
    ELSE IF score >= 1000 THEN "medium"
    ELSE "low"

\* ThresholdFallDetector._determine_severity, lines 166-182
determine_severity(features, confidence) ==
    SeverityLevel(features.accel_magnitude_max * 20
                  + features.jerk_magnitude_max * 5
                  + features.anomaly_score * 100
                  + confidence \div 1000, 3000)

\* the result dict of a layer; a key that is absent or None is written
\* "None", an absent confidence 0
LayerResult(reason, confidence, fall_type, severity) ==
    [reason |-> reason, confidence |-> confidence, fall_type |-> fall_type,
     severity |-> severity]

\* detect_fall with the cooldown lasting through the tenth second
threshold_detect_fall_inclusive(last_fall_time, features, current_time) ==
    IF current_time - last_fall_time <= fall_cooldown
    THEN [detected |-> FALSE,
          result |-> LayerResult("cooldown_period", 0, "None", "None"),
          last_fall_time |-> last_fall_time]
    ELSE LET impact_detected ==
                 \/ features.accel_magnitude_max > fall_threshold_accel
                 \/ features.jerk_magnitude_max > jerk_threshold
             orientation_change ==
                 \/ Abs(features.pitch_mean) + Abs(features.roll_mean)
                        > orientation_threshold
                 \/ features.orientation_stability > stability_threshold
             inactivity_detected ==
                 /\ features.activity_level \in LowActivity
                 /\ features.inactivity_duration > inactivity_threshold
             confidence ==
                 (IF impact_detected THEN impact_share ELSE 0)
                 + (IF orientation_change THEN orientation_share ELSE 0)
                 + (IF inactivity_detected THEN inactivity_share ELSE 0)
         IN IF confidence >= layer_bar
            THEN [detected |-> TRUE,
                  result |-> LayerResult("None", confidence,
                                 classify_fall_type(features),
                                 determine_severity(features, confidence)),
                  last_fall_time |-> current_time]
            ELSE [detected |-> FALSE,
                  result |-> LayerResult("None", confidence, "None", "None"),
                  last_fall_time |-> last_fall_time]

\* ThresholdFallDetector.detect_fall, lines 59-118: whether a fall is
\* detected, the result, and last_fall_time after the call
threshold_detect_fall(last_fall_time, features, current_time) ==
    IF current_time - last_fall_time < fall_cooldown
    THEN [detected |-> FALSE,
          result |-> LayerResult("cooldown_period", 0, "None", "None"),
          last_fall_time |-> last_fall_time]
    ELSE LET impact_detected ==
                 \/ features.accel_magnitude_max > fall_threshold_accel
                 \/ features.jerk_magnitude_max > jerk_threshold
             orientation_change ==
                 \/ Abs(features.pitch_mean) + Abs(features.roll_mean)
                        > orientation_threshold
                 \/ features.orientation_stability > stability_threshold
             inactivity_detected ==
                 /\ features.activity_level \in LowActivity
                 /\ features.inactivity_duration > inactivity_threshold
             confidence ==
                 (IF impact_detected THEN impact_share ELSE 0)
                 + (IF orientation_change THEN orientation_share ELSE 0)
                 + (IF inactivity_detected THEN inactivity_share ELSE 0)
         IN IF confidence >= layer_bar
            THEN [detected |-> TRUE,
                  result |-> LayerResult("None", confidence,
                                 classify_fall_type(features),
                                 determine_severity(features, confidence)),
                  last_fall_time |-> current_time]
            ELSE [detected |-> FALSE,
                  result |-> LayerResult("None", confidence, "None", "None"),
                  last_fall_time |-> last_fall_time]

\* MLFallDetector.feature_importance, lines 189-198, and for each feature
\* its value normalised by _normalize_feature, lines 283-298
Contributions(features) ==
    << <<250, Min(1000, (features.accel_magnitude_max * 1000) \div 50)>>,
       <<200, Min(1000, (features.jerk_magnitude_max * 1000) \div 50)>>,
       <<150, Min(1000, (features.orientation_stability * 1000) \div 900)>>,
       <<150, Min(1000, (features.inactivity_duration * 1000) \div 300)>>,
       <<100, Min(1000, (features.anomaly_score * 1000) \div 100)>>,
       <<50, IF features.hr_anomaly_detected THEN 1000 ELSE 0>>,
       <<50, IF features.spo2_anomaly_detected THEN 1000 ELSE 0>>,
       <<50, IF features.temp_anomaly_detected THEN 1000 ELSE 0>> >>

\* np.clip
Clip(x, low, high) == Max(low, Min(high, x))

\* MLFallDetector._predict_fall, lines 252-281: the fall probability
predict_fall(features, noise) ==
    LET c == Contributions(features) IN
    Clip(SeqSum([k \in DOMAIN c |-> c[k][1] * c[k][2]]) + noise,
         0, unit_factor)

\* MLFallDetector._calculate_uncertainty, lines 300-312, no feature missing
calculate_uncertainty(features) ==
    Min(max_uncertainty,
        Min(max_anomaly_uncertainty, features.anomaly_score * 10))

\* MLFallDetector._classify_fall_type_ml, lines 314-329
classify_fall_type_ml(features) ==
    IF /\ Abs(features.accel_x_mean) > Abs(features.accel_y_mean)
       /\ Abs(features.accel_x_mean) > Abs(features.accel_z_mean)
    THEN "side_fall"
    ELSE IF features.accel_y_mean < -15 THEN "forward_fall"
    ELSE IF features.accel_y_mean > 15 THEN "backward_fall"
    ELSE "unknown_fall"

\* MLFallDetector._determine_severity_ml, lines 331-349
determine_severity_ml(features, probability) ==
    SeverityLevel((3 * probability) \div 1000
                  + (IF features.hr_anomaly_detected THEN 1000 ELSE 0)
                  + (IF features.spo2_anomaly_detected THEN 1000 ELSE 0)
                  + (IF features.temp_anomaly_detected THEN 1000 ELSE 0),
                  2500)

\* MLFallDetector.detect_fall, lines 205-250
ml_detect_fall(features, noise) ==
    LET fall_probability == predict_fall(features, noise)
        uncertainty == calculate_uncertainty(features)
        confidence == (fall_probability \div 1000) * (1000 - uncertainty)
                      + ((fall_probability % 1000) * (1000 - uncertainty))
                            \div 1000
    IN IF /\ fall_probability > fall_probability_threshold
          /\ uncertainty < uncertainty_threshold
       THEN [detected |-> TRUE,
             result |-> LayerResult("None", confidence,
                            classify_fall_type_ml(features),
                            determine_severity_ml(features,
                                                  fall_probability))]
       ELSE [detected |-> FALSE,
             result |-> LayerResult("None", confidence, "None", "None")]

\* PostFallValidator.validate_fall, lines 359-407
validate_fall(features) ==
    LET inactivity_validation ==
            /\ features.inactivity_duration >= min_inactivity_duration
            /\ features.activity_level \in LowActivity
        physiological_validation ==
            \/ features.hr_anomaly_detected
            \/ features.spo2_anomaly_detected
            \/ features.temp_anomaly_detected
            \/ features.anomaly_score > stress_anomaly_score
        recovery_detected ==
            /\ features.activity_level \in {"moderate", "high"}
            /\ features.accel_magnitude_mean > validator_recovery_threshold
        validation_confidence ==
            (IF inactivity_validation THEN validation_inactivity_share ELSE 0)
            + (IF physiological_validation THEN validation_stress_share
               ELSE 0)
            + (IF ~recovery_detected THEN validation_recovery_share ELSE 0)
    IN [validated |-> validation_confidence >= validation_bar,
        confidence_adjustment |-> validation_confidence \div 5,
        recovery_detected |-> recovery_detected]

\* _combine_detections, lines 521-538
combine_detections(threshold_detected, threshold_result, ml_detected, ml_result) ==
    LET threshold_confidence ==
            IF threshold_detected THEN threshold_result.confidence ELSE 0
        ml_confidence == IF ml_detected THEN ml_result.confidence ELSE 0
    IN [detected |->
            \/ threshold_detected
               /\ threshold_confidence > layer_confidence_bar
            \/ ml_detected /\ ml_confidence > layer_confidence_bar,
        confidence |-> (threshold_confidence * threshold_weight
                        + ml_confidence * classifier_weight) \div 10]

\* _determine_final_classification, lines 540-554
determine_final_classification(threshold_result, ml_result) ==
    IF ml_result.fall_type # "None"
    THEN <<ml_result.fall_type, ml_result.severity>>
    ELSE IF threshold_result.fall_type # "None"
    THEN <<threshold_result.fall_type, threshold_result.severity>>
    ELSE <<"unknown_fall", "medium">>

\* process_features, lines 447-519: the detector after the run and the
\* results returned
process_features(d, features, noise, current_time) ==
    LET t == threshold_detect_fall(d.last_fall_time, features, current_time)
        m == ml_detect_fall(features, noise)
        combined == combine_detections(t.detected, t.result, m.detected,
                                       m.result)
        validation == IF combined.detected THEN validate_fall(features)
                      ELSE [validated |-> FALSE, confidence_adjustment |-> 0,
                            recovery_detected |-> FALSE]
        combined_confidence ==
            IF combined.detected /\ validation.validated
            THEN Min(unit_factor,
                     combined.confidence + validation.confidence_adjustment)
            ELSE combined.confidence
        detections ==
            [threshold |-> [detected |-> t.detected, result |-> t.result],
             ml_classifier |-> [detected |-> m.detected, result |-> m.result],
             post_validation |-> [run |-> combined.detected,
                                  validated |-> validation.validated,
                                  result |-> validation]]
    IN IF combined.detected /\ combined_confidence >= final_bar
       THEN LET final == determine_final_classification(t.result, m.result)
                results == [timestamp |-> current_time,
                            detections |-> detections,
                            final_decision |-> "fall_detected",
                            confidence |-> combined_confidence,
                            fall_type |-> final[1],
                            severity |-> final[2]]
            IN [detector |->
                    [last_fall_time |-> t.last_fall_time,
                     detection_history |->
                         DequeAppend(d.detection_history, results,
                                     detection_maxlen)],
                results |-> results]
       ELSE [detector |-> [d EXCEPT !.last_fall_time = t.last_fall_time],
             results |-> [timestamp |-> current_time,
                          detections |-> detections,
                          final_decision |-> "no_fall",
                          confidence |-> unit_factor - combined_confidence,
                          fall_type |-> "None",
                          severity |-> "None"]]

\* the features of a run: a wearer at rest, a stumble, a slump and a hard
\* fall
Calm ==
    [accel_magnitude_max |-> 10, jerk_magnitude_max |-> 0,
     orientation_stability |-> 0, inactivity_duration |-> 0,
     anomaly_score |-> 0, hr_anomaly_detected |-> FALSE,
     spo2_anomaly_detected |-> FALSE, temp_anomaly_detected |-> FALSE,
     activity_level |-> "high", pitch_mean |-> 0, roll_mean |-> 0,
     accel_x_mean |-> 0, accel_y_mean |-> 0, accel_z_mean |-> 10,
     accel_magnitude_mean |-> 10]
DetectorInputs ==
    {Calm,
     [Calm EXCEPT !.accel_magnitude_max = 30, !.jerk_magnitude_max = 160],
     [Calm EXCEPT !.orientation_stability = 450, !.inactivity_duration = 60,
                  !.activity_level = "low", !.pitch_mean = 700],
     [Calm EXCEPT !.accel_magnitude_max = 50, !.jerk_magnitude_max = 200,
                  !.orientation_stability = 900, !.inactivity_duration = 300,
                  !.activity_level = "low", !.hr_anomaly_detected = TRUE,
                  !.accel_y_mean = -20, !.accel_magnitude_mean = 2]}
NoiseSamples == {-150000, 0, 150000}
RunSteps == {4, 10}

\* the variables a run of the detector leaves alone
detectorFrame == <<fsmVars, obsVars, minute_alerts, hour_alerts, last_req,
                   requests, alertVars, mainVars, streamVars, featureVars,
                   engineVars, callVars, safetyVars>>

\* one run of process_features, dt seconds after the last one
ProcessFeatures ==
    \E features \in DetectorInputs, noise \in NoiseSamples, dt \in RunSteps :
        LET r == process_features(detector, features, noise,
                                  boot_time + now + dt) IN
        /\ runs < MaxRuns
        /\ detector' = r.detector
        /\ detect_call' = [called |-> TRUE, op |-> "process_features",
                           features |-> features, noise |-> noise,
                           results |-> r.results]
        /\ runs' = runs + 1
        /\ now' = now + dt
        /\ UNCHANGED detectorFrame

\* reset_detector, lines 560-564
ResetDetector ==
    /\ runs < MaxRuns
    /\ detector.detection_history # <<>>
    /\ detector' = [detector EXCEPT !.detection_history = <<>>]
    /\ detect_call' = [called |-> TRUE, op |-> "reset_detector"]
    /\ runs' = runs + 1
    /\ UNCHANGED <<now, detectorFrame>>

NextDetector == ProcessFeatures \/ ResetDetector

SpecDetector == InitFSM /\ [][NextDetector]_vars

(***************************************************************************)
(* ElderlyMonitoringSystem (main_enhanced.py): the detector's results      *)
(* handed to the decision engine.  process_fall_detection stores the       *)
(* results of detect_fall in current_detection_results, make_decisions     *)
(* passes current_features and current_detection_results to make_decision. *)
(* The detector counts in millionths, the engine in thousandths.           *)
(***************************************************************************)
\* the keys of the detection results that make_decision reads
detection_results(results) ==
    [final_decision |-> results.final_decision,
     confidence |-> results.confidence \div 1000]

\* process_features, lines 446 and 474-478: the combined confidence that a
\* fall happened, from which the results' confidence was written at lines
\* 501-517
fall_confidence(results) ==
    IF results.final_decision = "fall_detected" THEN results.confidence
    ELSE unit_factor - results.confidence

\* make_decisions, lines 336-353, on the results of the last detection
MakeDecisions ==
    /\ detect_call.called
    /\ detect_call.op = "process_features"
    /\ Len(engine.decision_history) < MaxDecisions
    /\ Decide(detect_call.features, detection_results(detect_call.results))

NextDecisions == ProcessFeatures \/ MakeDecisions

SpecDecisions == InitFSM /\ [][NextDecisions]_vars

(***************************************************************************)
(* SystemStateManager (safety/system_safety_manager.py)                    *)
(*                                                                         *)
(* The callers of process_alert, confirm_alert, acknowledge_alert and      *)
(* resolve_alert run on the main thread; _monitoring_loop runs on the      *)
(* thread start_monitoring creates.  No lock is taken anywhere, so a call  *)
(* of the main thread can run between two steps of the monitoring thread;  *)
(* the calls of the main thread are taken as single steps.                 *)
(***************************************************************************)
escalation_age == 300
recovery_period == 300

SafetyStates == {"NORMAL", "ALERT_PENDING", "ALERT_CONFIRMED",
                 "EMERGENCY_ACTIVE", "RECOVERY_MODE", "MAINTENANCE",
                 "BATTERY_SAVE"}

\* state_transitions, lines 82-113
state_transitions(s) ==
    CASE s = "NORMAL" -> {"ALERT_PENDING", "BATTERY_SAVE", "MAINTENANCE"}
      [] s = "ALERT_PENDING" ->
            {"NORMAL", "ALERT_CONFIRMED", "EMERGENCY_ACTIVE"}
      [] s = "ALERT_CONFIRMED" ->
            {"NORMAL", "RECOVERY_MODE", "EMERGENCY_ACTIVE"}
      [] s = "EMERGENCY_ACTIVE" -> {"RECOVERY_MODE", "NORMAL"}
      [] s = "RECOVERY_MODE" -> {"NORMAL", "ALERT_PENDING"}
      [] s = "MAINTENANCE" -> {"NORMAL"}
      [] s = "BATTERY_SAVE" -> {"NORMAL", "MAINTENANCE"}
      [] OTHER -> {}

\* _initialize_safety_rules, lines 126-208: the rules the model raises
safety_rules ==
    [fall_detection |->
        [severity |-> "EMERGENCY", cooldown_seconds |-> 30,
         confirmation_required |-> FALSE, auto_escalate |-> TRUE,
         battery_threshold |-> 10,
         max_false_alarms |-> 3, suppression_window |-> 10],
     panic_button |->
        [severity |-> "EMERGENCY", cooldown_seconds |-> 10,
         confirmation_required |-> FALSE, auto_escalate |-> TRUE,
         battery_threshold |-> 5,
         max_false_alarms |-> 0, suppression_window |-> 5],
     health_anomaly |->
        [severity |-> "HIGH", cooldown_seconds |-> 60,
         confirmation_required |-> TRUE, auto_escalate |-> FALSE,
         battery_threshold |-> 20,
         max_false_alarms |-> 5, suppression_window |-> 30],
     no_movement |->
        [severity |-> "HIGH", cooldown_seconds |-> 180,
         confirmation_required |-> TRUE, auto_escalate |-> TRUE,
         battery_threshold |-> 15,
         max_false_alarms |-> 3, suppression_window |-> 120]]

\* the order in which evaluate_sensor_data goes through these rules (the
\* order of the dict)
rule_order == <<"fall_detection", "panic_button", "health_anomaly",
                "no_movement">>

\* del d[k]
DictDel(d, k) == [x \in (DOMAIN d) \ {k} |-> d[x]]

\* dict.get(k, default)
DictGet(d, k, default) == IF k \in DOMAIN d THEN d[k] ELSE default

\* can_transition_to, lines 252-254
can_transition_to(m, new_state) ==
    new_state \in state_transitions(m.current_state)

\* transition_to_state, lines 256-271
transition_to_state(m, new_state, current_time) ==
    IF ~can_transition_to(m, new_state) THEN m
    ELSE [m EXCEPT !.current_state = new_state,
                   !.state_start_time = current_time]

\* _create_alert, lines 416-435
create_alert(rule_name, current_time) ==
    [id |-> <<rule_name, current_time>>, type |-> rule_name,
     severity |-> safety_rules[rule_name].severity,
     timestamp |-> current_time, confirmed |-> FALSE,
     acknowledged |-> FALSE, resolved |-> FALSE, false_positive |-> FALSE]

\* the AlertEvent an id of active_alerts stands for
ActiveAlert(m, id) == m.alert_history[m.active_alerts[id]]

\* _should_handle_alert, lines 499-510
should_handle_alert(m, alert) ==
    /\ alert.type \in DOMAIN safety_rules
    /\ \A id \in DOMAIN m.active_alerts :
          ~(ActiveAlert(m, id).type = alert.type
            /\ ~ActiveAlert(m, id).resolved)

\* _update_state_for_alert, lines 512-523
update_state_for_alert(m, alert, current_time) ==
    IF alert.severity \in {"EMERGENCY", "CRITICAL"}
    THEN IF m.current_state \in {"NORMAL", "ALERT_PENDING"}
         THEN transition_to_state(m, "EMERGENCY_ACTIVE", current_time)
         ELSE m
    ELSE IF alert.severity = "HIGH" /\ m.current_state = "NORMAL"
    THEN transition_to_state(m, "ALERT_PENDING", current_time)
    ELSE m

\* process_alert, lines 473-497, with start_monitoring, lines 572-580: the
\* manager after the call and the value returned
process_alert(m, alert, current_time) ==
    IF ~should_handle_alert(m, alert) THEN [m |-> m, result |-> FALSE]
    ELSE LET stored ==
                [m EXCEPT
                    !.alert_history = Append(m.alert_history, alert),
                    !.active_alerts =
                        DictPut(m.active_alerts, alert.id,
                                Len(m.alert_history) + 1)]
             updated == update_state_for_alert(stored, alert, current_time)
         IN [m |-> [updated EXCEPT !.is_monitoring = TRUE],
             result |-> TRUE]

\* confirm_alert, lines 525-543, with increment_false_positive and
\* suppress_alert
confirm_alert(m, id, confirmed, current_time) ==
    IF id \notin DOMAIN m.active_alerts THEN [m |-> m, result |-> FALSE]
    ELSE LET i == m.active_alerts[id]
             type == m.alert_history[i].type
             marked ==
                IF confirmed
                THEN [m EXCEPT !.alert_history[i].confirmed = TRUE]
                ELSE [m EXCEPT
                        !.alert_history[i].confirmed = FALSE,
                        !.alert_history[i].false_positive = TRUE,
                        !.false_positive_counts =
                            DictPut(m.false_positive_counts, type,
                                DictGet(m.false_positive_counts, type, 0) + 1),
                        !.suppression_windows =
                            DictPut(m.suppression_windows, type,
                                Append(DictGet(m.suppression_windows, type,
                                               <<>>), current_time))]
         IN [m |-> IF confirmed /\ marked.current_state = "ALERT_PENDING"
                   THEN transition_to_state(marked, "ALERT_CONFIRMED",
                                            current_time)
                   ELSE marked,
             result |-> TRUE]

\* acknowledge_alert, lines 545-553
acknowledge_alert(m, id) ==
    IF id \notin DOMAIN m.active_alerts THEN [m |-> m, result |-> FALSE]
    ELSE [m |-> [m EXCEPT
                    !.alert_history[m.active_alerts[id]].acknowledged = TRUE],
          result |-> TRUE]

\* resolve_alert, lines 555-570
resolve_alert(m, id, current_time) ==
    IF id \notin DOMAIN m.active_alerts THEN [m |-> m, result |-> FALSE]
    ELSE LET removed ==
                [m EXCEPT
                    !.alert_history[m.active_alerts[id]].resolved = TRUE,
                    !.active_alerts = DictDel(m.active_alerts, id)]
         IN [m |-> IF /\ DOMAIN removed.active_alerts = {}
                      /\ removed.current_state
                            \in {"ALERT_PENDING", "ALERT_CONFIRMED"}
                   THEN transition_to_state(removed, "RECOVERY_MODE",
                                            current_time)
                   ELSE removed,
             result |-> TRUE]

\* is_in_cooldown, lines 273-284
is_in_cooldown(m, alert_type, current_time) ==
    /\ alert_type \in DOMAIN m.cooldown_timers
    /\ current_time - m.cooldown_timers[alert_type]
          < safety_rules[alert_type].cooldown_seconds

\* is_suppressed, lines 290-309: the entries still inside the window, which
\* the call keeps
suppression_kept(m, alert_type, current_time) ==
    SelectSeq(m.suppression_windows[alert_type],
              LAMBDA timestamp :
                  timestamp > current_time
                                - safety_rules[alert_type].suppression_window)

is_suppressed(m, alert_type, current_time) ==
    /\ alert_type \in DOMAIN m.suppression_windows
    /\ suppression_kept(m, alert_type, current_time) # <<>>

\* check_false_positive_limit, lines 318-324
check_false_positive_limit(m, alert_type) ==
    DictGet(m.false_positive_counts, alert_type, 0)
        >= safety_rules[alert_type].max_false_alarms

\* check_battery_threshold, lines 331-337
check_battery_threshold(alert_type, battery_level) ==
    battery_level >= safety_rules[alert_type].battery_threshold

\* _evaluate_rule_condition, lines 371-414, for the rules of the model
evaluate_rule_condition(alert_type, sensor_data) ==
    CASE alert_type = "fall_detection" -> sensor_data.magnitude > 15
      [] alert_type = "panic_button" -> sensor_data.panic_pressed
      [] alert_type = "health_anomaly" ->
            sensor_data.heart_rate < 50 \/ sensor_data.heart_rate > 120
      [] alert_type = "no_movement" -> sensor_data.state = "no_movement"
      [] OTHER -> FALSE

\* evaluate_sensor_data, lines 339-369, from the i-th rule on: the manager
\* after the call and the alerts returned
RECURSIVE evaluate_sensor_data(_, _, _, _)
evaluate_sensor_data(m, sensor_data, current_time, i) ==
    IF i > Len(rule_order) THEN [m |-> m, alerts |-> <<>>]
    ELSE LET rule_name == rule_order[i]
             pruned ==
                IF rule_name \in DOMAIN m.suppression_windows
                THEN [m EXCEPT !.suppression_windows[rule_name] =
                        suppression_kept(m, rule_name, current_time)]
                ELSE m
         IN IF is_in_cooldown(m, rule_name, current_time)
            THEN evaluate_sensor_data(m, sensor_data, current_time, i + 1)
            ELSE IF \/ is_suppressed(m, rule_name, current_time)
                    \/ check_false_positive_limit(pruned, rule_name)
                    \/ ~check_battery_threshold(rule_name,
                                                sensor_data.battery_level)
                    \/ ~evaluate_rule_condition(rule_name, sensor_data)
            THEN evaluate_sensor_data(pruned, sensor_data, current_time,
                                      i + 1)
            ELSE LET rest == evaluate_sensor_data(
                                [pruned EXCEPT !.cooldown_timers =
                                    DictPut(@, rule_name, current_time)],
                                sensor_data, current_time, i + 1)
                 IN [m |-> rest.m,
                     alerts |-> <<create_alert(rule_name, current_time)>>
                                    \o rest.alerts]

\* the body of the loop of _check_auto_escalation, lines 619-628, for one
\* alert
check_auto_escalation(m, alert, current_time) ==
    IF /\ ~alert.acknowledged /\ ~alert.resolved
       /\ safety_rules[alert.type].auto_escalate
       /\ current_time - alert.timestamp > escalation_age
       /\ m.current_state # "EMERGENCY_ACTIVE"
    THEN transition_to_state(m, "EMERGENCY_ACTIVE", current_time)
    ELSE m

\* _check_recovery_conditions, lines 630-637
check_recovery_conditions(m, current_time) ==
    IF /\ m.current_state = "RECOVERY_MODE"
       /\ current_time - m.state_start_time > recovery_period
       /\ DOMAIN m.active_alerts = {}
    THEN transition_to_state(m, "NORMAL", current_time)
    ELSE m

(***************************************************************************)
(* SystemStateManager: its calls and its monitoring thread                 *)
(***************************************************************************)
SafetyAlertTypes == {"fall_detection", "health_anomaly"}
SafetyTimeSteps == {301}
\* the ids a caller may pass: those of the alerts created so far
SafetyIds == {safety.alert_history[i].id : i \in DOMAIN safety.alert_history}

\* the variables the SystemStateManager leaves alone
sensorFrame == <<fsmVars, obsVars, minute_alerts, hour_alerts, last_req,
                 requests, alertVars, mainVars, streamVars, mlVars, callVars>>
\* and those its other calls leave alone
safetyFrame == <<evaluation, sensorFrame>>

\* the monitoring thread is created by the first start_monitoring
started(m) == IF m.pc = "idle" THEN [m EXCEPT !.pc = "sleeping"] ELSE m

\* process_alert called with a new alert of one rule
ProcessAlert ==
    \E rule_name \in SafetyAlertTypes :
        LET r == process_alert(safety, create_alert(rule_name, now), now) IN
        /\ Len(safety.alert_history) < MaxSafetyAlerts
        /\ safety' = r.m
        /\ monitor' = IF r.result THEN started(monitor) ELSE monitor
        /\ UNCHANGED <<now, safetyFrame>>

\* confirm_alert_safety, lines 674-678; an alert is rejected once at most
ConfirmAlert ==
    \E id \in DOMAIN safety.active_alerts, confirmed \in BOOLEAN :
        /\ ~ActiveAlert(safety, id).confirmed
        /\ ~ActiveAlert(safety, id).false_positive
        /\ safety' = confirm_alert(safety, id, confirmed, now).m
        /\ UNCHANGED <<now, monitor, safetyFrame>>

\* acknowledge_alert_safety, lines 680-684
AcknowledgeSafetyAlert ==
    \E id \in DOMAIN safety.active_alerts :
        /\ ~ActiveAlert(safety, id).acknowledged
        /\ safety' = acknowledge_alert(safety, id).m
        /\ UNCHANGED <<now, monitor, safetyFrame>>

\* resolve_alert_safety, lines 686-690
ResolveAlert ==
    \E id \in DOMAIN safety.active_alerts :
        /\ safety' = resolve_alert(safety, id, now).m
        /\ UNCHANGED <<now, monitor, safetyFrame>>

\* _monitoring_loop, lines 589-598: the thread wakes up, runs
\* _monitor_battery_level and creates the iterator over
\* active_alerts.values() in _check_auto_escalation
MonitorWake ==
    /\ safety.is_monitoring
    /\ monitor.pc = "sleeping"
    /\ monitor' = [monitor EXCEPT !.pc = "iterating",
                                  !.keys = DOMAIN safety.active_alerts,
                                  !.visited = {}]
    /\ UNCHANGED <<now, safety, safetyFrame>>

\* one step of the for loop of _check_auto_escalation.  The iterator of a
\* dict raises RuntimeError when the size of the dict is no longer the one
\* it was created with; the except of _monitoring_loop, lines 605-607,
\* catches it and the thread sleeps.  With the size unchanged the iterator
\* yields an entry not yet visited, or ends, and _check_recovery_conditions
\* runs.  When transition_to_state is called and its test of
\* can_transition_to (line 258) passes, the thread stands before the
\* assignment of line 263.
MonitorStep ==
    /\ monitor.pc = "iterating"
    /\ LET current == DOMAIN safety.active_alerts
           left == current \ monitor.visited
       IN IF Cardinality(current) # Cardinality(monitor.keys)
          THEN monitor' = [monitor EXCEPT !.pc = "sleeping", !.error = TRUE]
          ELSE IF left # {}
          THEN \E id \in left :
                monitor' =
                    [monitor EXCEPT
                        !.visited = @ \cup {id},
                        !.pc = IF check_auto_escalation(safety,
                                      ActiveAlert(safety, id), now) # safety
                               THEN "escalating" ELSE @]
          ELSE monitor' =
                    [monitor EXCEPT
                        !.pc = IF check_recovery_conditions(safety, now)
                                    # safety
                               THEN "recovering" ELSE "sleeping"]
    /\ UNCHANGED <<now, safety, safetyFrame>>

\* transition_to_state on the monitoring thread, lines 262-271: the state
\* admitted by the test made a step earlier is assigned, and the thread
\* goes on with the loop (after an escalation) or sleeps (after the end of
\* the recovery)
MonitorAssign ==
    /\ monitor.pc \in {"escalating", "recovering"}
    /\ safety' = [safety EXCEPT
                    !.current_state = IF monitor.pc = "escalating"
                                      THEN "EMERGENCY_ACTIVE" ELSE "NORMAL",
                    !.state_start_time = now]
    /\ monitor' = [monitor EXCEPT
                    !.pc = IF monitor.pc = "escalating"
                           THEN "iterating" ELSE "sleeping"]
    /\ UNCHANGED <<now, safetyFrame>>

\* time passes
SafetyAdvance ==
    \E d \in SafetyTimeSteps :
        /\ now + d <= MaxSafetyTime
        /\ now' = now + d
        /\ UNCHANGED <<safety, monitor, safetyFrame>>

\* the samples passed to process_sensor_data_safety: the magnitude of the
\* acceleration, the panic button and the battery level
SensorSamples ==
    {[magnitude |-> a, panic_pressed |-> p, battery_level |-> b,
      heart_rate |-> 72, state |-> "active"] :
        a \in {10, 20}, p \in BOOLEAN, b \in {4, 100}}
SensorTimeSteps == {6, 11}

\* process_alert for each alert of a list, in order
RECURSIVE process_alerts(_, _, _)
process_alerts(m, events, current_time) ==
    IF events = <<>> THEN [m |-> m, result |-> FALSE]
    ELSE LET first == process_alert(m, Head(events), current_time)
             rest == process_alerts(first.m, Tail(events), current_time)
         IN [m |-> rest.m, result |-> first.result \/ rest.result]

\* process_sensor_data_safety, lines 665-672: the sample is evaluated and
\* every alert returned is processed
ProcessSensorData ==
    \E sensor_data \in SensorSamples :
        LET e == evaluate_sensor_data(safety, sensor_data, now, 1)
            r == process_alerts(e.m, e.alerts, now)
        IN /\ safety' = r.m
           /\ monitor' = IF r.result THEN started(monitor) ELSE monitor
           /\ evaluation' =
                [called |-> TRUE, sensor_data |-> sensor_data, time |-> now,
                 in_cooldown |->
                    {n \in DOMAIN safety_rules :
                        is_in_cooldown(safety, n, now)},
                 suppressed |->
                    {n \in DOMAIN safety_rules :
                        is_suppressed(safety, n, now)},
                 first |-> safety.cooldown_timers = <<>>
                           /\ safety.alert_history = <<>>,
                 alerts |-> {e.alerts[k].type : k \in DOMAIN e.alerts}]
           /\ UNCHANGED <<now, sensorFrame>>

\* time passes between two samples
SensorAdvance ==
    \E d \in SensorTimeSteps :
        /\ now + d <= MaxSensorTime
        /\ now' = now + d
        /\ UNCHANGED <<safetyVars, sensorFrame>>

NextSensor ==
    \/ ProcessSensorData
    \/ ConfirmAlert
    \/ ResolveAlert
    \/ SensorAdvance

SpecSensor == InitFSM /\ [][NextSensor]_vars

NextSafety ==
    \/ ProcessAlert
    \/ ConfirmAlert
    \/ AcknowledgeSafetyAlert
    \/ ResolveAlert
    \/ MonitorWake
    \/ MonitorStep
    \/ MonitorAssign
    \/ SafetyAdvance

SpecSafety == InitFSM /\ [][NextSafety]_vars

\* The manager with a monitoring loop that keeps running.  The clock of the
\* model stops at MaxSafetyTime, so the main thread makes its calls while a
\* recovery period still fits before that time; the monitoring thread and
\* the clock are never held back for ever.
InHorizon == now + recovery_period < MaxSafetyTime

EarlyProcessAlert == InHorizon /\ ProcessAlert
EarlyConfirmAlert == InHorizon /\ ConfirmAlert
EarlyResolveAlert == InHorizon /\ ResolveAlert

NextRecovery ==
    \/ EarlyProcessAlert
    \/ EarlyConfirmAlert
    \/ EarlyResolveAlert
    \/ MonitorWake
    \/ MonitorStep
    \/ MonitorAssign
    \/ SafetyAdvance

SpecRecovery ==
    /\ InitFSM
    /\ [][NextRecovery]_vars
    /\ WF_vars(MonitorWake)
    /\ WF_vars(MonitorStep)
    /\ WF_vars(MonitorAssign)
    /\ WF_vars(SafetyAdvance)

(***************************************************************************)
(* Claims about FallStateMachine                                           *)
(***************************************************************************)
PreFallStates == {"NORMAL", "MONITORING", "PRE_FALL_WARNING"}
InLevel == current_risk_level(inp.instability_risk)

\* C1 (as amended): update called with spike=true in NORMAL, MONITORING or
\* PRE_FALL_WARNING returns POSSIBLE_FALL on that call, whatever the
\* instability score and the risk level are.
C1_SpikeFromPreFallStates ==
    (inp.called /\ inp.spike /\ pre.state \in PreFallStates)
        => state = "POSSIBLE_FALL"

\* C1 witness: a spike arrived in NORMAL together with a score that raised the
\* risk level to HIGH, and the machine went to POSSIBLE_FALL.
C1_Witness ==
    /\ inp.called /\ inp.spike
    /\ pre.state = "NORMAL" /\ pre.risk_state = "LOW"
    /\ risk_state = "HIGH"
    /\ state = "POSSIBLE_FALL"

\* C1 as stated: a spike in any state other than ALERT returns POSSIBLE_FALL.
C1_Original ==
    (inp.called /\ inp.spike /\ pre.state # "ALERT")
        => state = "POSSIBLE_FALL"

\* C2 as stated: when POSSIBLE_FALL has lasted confirmation_window updates
\* without a confirmation, the next update leaves the machine in NORMAL,
\* whatever its inputs are.
C2_Original ==
    (inp.called /\ pre.state = "POSSIBLE_FALL"
        /\ pre.fall_timer >= confirmation_window)
        => state = "NORMAL"

\* C3 as stated: the machine stays in ALERT for at most
\* confirmation_window + 10 updates.
C3_Original ==
    state = "ALERT" => alert_updates <= confirmation_window + alert_extra_window

\* C7 as stated: a level lower than the committed one, computed on two
\* consecutive updates, is committed on the second of them.
C7_Original ==
    (inp.called /\ pre.last_level = InLevel
        /\ RiskRank(InLevel) < RiskRank(pre.risk_state))
        => risk_state = InLevel

\* C8: an update whose score maps to a level above the committed risk level
\* commits that level on the same update.
C8_RaiseImmediate ==
    (inp.called /\ RiskRank(InLevel) > RiskRank(pre.risk_state))
        => risk_state = InLevel

\* C8 witness: the committed level was MEDIUM for a single update and one HIGH
\* score raised it to HIGH.
C8_Witness ==
    /\ inp.called
    /\ pre.risk_state = "MEDIUM" /\ pre.risk_state_timer = 1
    /\ InLevel = "HIGH"
    /\ risk_state = "HIGH" /\ risk_state_timer = 1


\* C14: POSSIBLE_FALL -> CONFIRMED_FALL by the inactivity route happens only
\* on an update for which the last min_inactivity_window updates, that one
\* included, all had posture lying with inactive true.
InactivityRoute ==
    /\ pre.called
    /\ pre.state = "POSSIBLE_FALL"
    /\ state = "CONFIRMED_FALL"
    /\ inp.posture = "lying"
    /\ inp.inactive

C14_Original == InactivityRoute => confirming_run >= min_inactivity_window

\* the last update was made in POSSIBLE_FALL with post_fall_state true
PostFallUpdate ==
    /\ pre.called
    /\ pre.state = "POSSIBLE_FALL"
    /\ inp.post_fall_state

\* C30: in POSSIBLE_FALL an update with post_fall_state true that is at
\* least the second update since POSSIBLE_FALL was entered yields
\* CONFIRMED_FALL, whatever posture and inactive are; the first update after
\* entering never confirms by the post-fall route.  fall_timer is 0 on
\* entering and counts the updates made since.
C30_Original ==
    PostFallUpdate =>
        /\ pre.fall_timer >= 1 => state = "CONFIRMED_FALL"
        /\ (pre.fall_timer = 0 /\ ~(inp.posture = "lying" /\ inp.inactive))
              => state # "CONFIRMED_FALL"

\* C37: after an update without a spike that leaves the committed risk
\* level CRITICAL, a machine that was in NORMAL or MONITORING is in
\* PRE_FALL_WARNING, and one that was in PRE_FALL_WARNING still is.
C37_Original ==
    (/\ inp.called
     /\ ~inp.spike
     /\ risk_state = "CRITICAL"
     /\ pre.state \in {"NORMAL", "MONITORING", "PRE_FALL_WARNING"})
        => state = "PRE_FALL_WARNING"

(***************************************************************************)
(* Claims about AlertRateLimiter                                           *)
(***************************************************************************)
\* the alerts permitted (recorded) at a time in a..b
PermittedIn(a, b) ==
    Cardinality({i \in DOMAIN hour_alerts :
                    a <= hour_alerts[i][1] /\ hour_alerts[i][1] <= b})

\* the requests for non-emergency alerts made at a time in a..b
RequestedIn(a, b) ==
    Cardinality({i \in DOMAIN requests :
                    /\ requests[i][2] # "emergency"
                    /\ a <= requests[i][1] /\ requests[i][1] <= b})

\* the 60-second windows that have fully elapsed
ElapsedWindows == {w \in 0..now : w + minute_window <= now}

\* C5 (as amended): every 60-second window holds at most max_per_minute
\* permitted alerts, and a burst of more than max_per_minute requests inside
\* one window has exactly max_per_minute permitted when no alert was permitted
\* in the 60 seconds before the window (and the hourly cap leaves room).
C5_WindowCap ==
    /\ \A w \in 0..now : PermittedIn(w, w + minute_window) <= max_per_minute
    /\ \A w \in ElapsedWindows :
          (/\ RequestedIn(w, w + minute_window) > max_per_minute
           /\ PermittedIn(w - minute_window, w - 1) = 0
           /\ PermittedIn(w - hour_window, w - 1) <= max_per_hour - max_per_minute)
              => PermittedIn(w, w + minute_window) = max_per_minute

\* C5 witness: six non-emergency requests fell into the elapsed window that
\* starts at 0, five alerts were permitted and the last request was refused
\* for the per-minute cap.
C5_Witness ==
    /\ now >= minute_window
    /\ RequestedIn(0, minute_window) > max_per_minute
    /\ PermittedIn(0, minute_window) = max_per_minute
    /\ last_req.called /\ ~last_req.can_send /\ last_req.reason = "minute"

\* C5 as stated: every elapsed 60-second window with more than max_per_minute
\* non-emergency requests has exactly max_per_minute permitted alerts.
C5_Original ==
    \A w \in ElapsedWindows :
        RequestedIn(w, w + minute_window) > max_per_minute
            => PermittedIn(w, w + minute_window) = max_per_minute

\* C6 as stated: can_send_alert returns true for every EMERGENCY alert.
C6_Original ==
    (last_req.called /\ last_req.alert_type = "emergency") => last_req.can_send

\* the alerts of a type that a window of the limiter holds
OfType(q, alert_type) ==
    Cardinality({i \in DOMAIN q : q[i][2] = alert_type})

\* C23: rate limiting is independent per alert type: an alert is refused only
\* when the alerts of its own type fill the per-minute or the per-hour quota,
\* never because of the alerts of another type.
C23_Original ==
    (last_req.called /\ ~last_req.can_send)
        => \/ OfType(minute_alerts, last_req.alert_type) >= max_per_minute
           \/ OfType(hour_alerts, last_req.alert_type) >= max_per_hour


(***************************************************************************)
(* Claims about MultiLevelAlertSystem                                      *)
(***************************************************************************)
\* C4 as stated: once acknowledge_alert has returned true for an alert's id,
\* no scheduled escalation step of that alert makes a channel attempt.
C4_Original ==
    \A e \in attempts : ~e.after_ack

\* C10 as stated: a fall alert that has been acknowledged is resolved: it is
\* no longer returned by get_active_alerts and it is still in the history.
C10_Original ==
    \A i \in DOMAIN alerts :
        (alerts[i].type = "fall_detected" /\ alerts[i].acknowledged)
            => /\ alerts[i] \notin get_active_alerts
               /\ \E j \in DOMAIN get_alert_history : get_alert_history[j] = alerts[i]

\* C22: within one escalation step every channel of the step is attempted,
\* whatever the outcome (false result or raised error) of the other channels
\* of that step, and only the channels that succeeded are added to the
\* alert's channels_used.
C22_EveryChannelTried ==
    /\ \A e \in attempts :
            e.tried = escalation_rules(alerts[e.alert].type)[e.step].channels
    /\ \A i \in DOMAIN alerts :
            Range(alerts[i].channels_used)
                = UNION {e.sent : e \in {x \in attempts : x.alert = i}}

\* C22 witness: a step in which one channel raised, and a channel tried after
\* it succeeded and is in channels_used
C22_Witness ==
    \E e \in attempts :
        \E j, k \in DOMAIN e.tried :
            /\ j < k
            /\ e.tried[j] \in e.raised
            /\ e.tried[k] \in e.sent
            /\ e.tried[k] \in Range(alerts[e.alert].channels_used)

\* C38: every accepted alert has an id different from the id of every
\* other alert in active_alerts, so active_alerts holds one entry per
\* accepted alert and the entry of an alert's id is that alert, the one whose
\* escalation tasks were scheduled under the id.
C38_Original ==
    /\ \A i, j \in DOMAIN alerts : i # j => alerts[i].id # alerts[j].id
    /\ Cardinality(DOMAIN active_alerts) = Len(alerts)
    /\ \A k \in DOMAIN background_tasks :
          active_alerts[alerts[background_tasks[k].alert].id]
              = background_tasks[k].alert


(***************************************************************************)
(* Claims about run_normal_mode                                            *)
(***************************************************************************)
\* the states of the fall path, in order
FallPath == <<"NORMAL", "POSSIBLE_FALL", "CONFIRMED_FALL", "ALERT">>

\* C9 as stated: once a single impact sample has been followed by 3 still
\* samples with posture lying, the machine has gone NORMAL -> POSSIBLE_FALL ->
\* CONFIRMED_FALL -> ALERT, and exactly one remote alert has been sent for
\* the episode, however long the machine has been in ALERT since.
C9_Original ==
    episode.stage = 4 =>
        /\ episode.path = FallPath
        /\ episode.fall_alerts + episode.emergency_alerts = 1

\* the states of the warning path, in order
WarningPath == <<"NORMAL", "MONITORING", "PRE_FALL_WARNING">>

\* the AlertController has started its gentle pre-fall warning
WarningStarted ==
    \E i \in DOMAIN controller.alert_history :
        controller.alert_history[i] = Event("started", "PRE_FALL_WARNING", {})

\* C11 as stated: when the machine has gone NORMAL -> MONITORING ->
\* PRE_FALL_WARNING without a spike, the AlertController has produced its
\* pre-fall warning.
C11_Original ==
    trail = WarningPath => WarningStarted


\* the AlertController has started an alert sequence
SequenceStarted ==
    \E i \in DOMAIN controller.alert_history :
        controller.alert_history[i].type = "started"

\* C12: while every sample is at rest and upright, with no spike and an
\* instability score below the MEDIUM threshold, the machine is NORMAL after
\* every update, the posture is standing once 5 samples have been fed, and
\* the AlertController has started no alert sequence.
C12_SteadyStream ==
    steady =>
        /\ state = "NORMAL"
        /\ (ticks >= posture_window_size => last_posture = "standing")
        /\ ~SequenceStarted
        /\ ~controller.alert_active

\* C12 witness: a steady stream of at least 5 samples has been processed.
C12_Witness ==
    /\ steady
    /\ ticks >= posture_window_size
    /\ last_posture = "standing"
    /\ state = "NORMAL"

(***************************************************************************)
(* Claims about FeatureExtractor                                           *)
(***************************************************************************)
\* C13: whenever fewer samples than the window capacity (window_size) have
\* been fed, update and get_current_features report 'not ready' instead of
\* a vector.
C13_Original ==
    (extraction.called /\ extraction.fed < feature_window_size)
        => extraction.result.kind = NotReady.kind

(***************************************************************************)
(* Claims about DecisionEngine                                             *)
(***************************************************************************)
\* the last call was make_decision
Decided == engine_call.called /\ engine_call.op = "make_decision"

\* whether the last decision reports a rule of the given names as triggered
Reported(names) ==
    \E i \in DOMAIN engine_call.decision.rule_details :
        /\ engine_call.decision.rule_details[i].name \in names
        /\ engine_call.decision.rule_details[i].triggered

\* C15: the decision type follows the precedence: detector fall or a
\* fall/impact rule gives FALL_DETECTED or EMERGENCY_RESPONSE (EMERGENCY from
\* the upper score threshold); otherwise a health-anomaly rule gives
\* HEALTH_ALERT; otherwise a pre-fall rule with a moderate score gives
\* PRE_FALL_WARNING; otherwise NO_ACTION.
C15_Original ==
    Decided =>
        LET d == engine_call.decision IN
        IF \/ engine_call.ml_results.final_decision = "fall_detected"
           \/ Reported({"high_impact_fall", "sudden_jerk"})
        THEN /\ d.decision_type \in FallTypes
             /\ d.decision_type = "emergency_response"
                    <=> d.confidence >= emergency_score
        ELSE IF Reported({"heart_rate_anomaly", "spo2_anomaly",
                          "high_anomaly_score"})
        THEN d.decision_type = "health_alert"
        ELSE IF /\ Reported({"prolonged_inactivity", "orientation_change"})
                /\ d.confidence >= pre_fall_score
        THEN d.decision_type = "pre_fall_warning"
        ELSE d.decision_type = "no_action"

\* C16: update_feedback marking a FALL_DETECTED or EMERGENCY_RESPONSE decision
\* of the history as incorrect changes threshold_adjustment_factor.
C16_Original ==
    (/\ engine_call.called
     /\ engine_call.op = "update_feedback"
     /\ engine_call.decision_type \in FallTypes
     /\ ~engine_call.correct)
        => engine.threshold_adjustment_factor # engine_call.factor_before

\* C17: after any sequence of make_decision, update_feedback and reset_engine
\* calls threshold_adjustment_factor lies in [0.5, 2.0], and it is 1.0
\* initially and after reset_engine.
C17_FactorRange ==
    /\ engine.threshold_adjustment_factor >= min_factor
    /\ engine.threshold_adjustment_factor <= max_factor
    /\ ~engine_call.called => engine.threshold_adjustment_factor = unit_factor
    /\ (engine_call.called /\ engine_call.op = "reset_engine")
            => engine.threshold_adjustment_factor = unit_factor

\* C17 witness: a decision whose adjustment was held at the lower limit
C17_Witness ==
    /\ Decided
    /\ engine.threshold_adjustment_factor = min_factor
    /\ (engine_call.factor_before * 95) \div 100 < min_factor

\* C18: two make_decision calls given the same features and the same detector
\* output return the same explanation, decision type, urgency and confidence.
C18_Original ==
    \A i, j \in DOMAIN engine.decision_history :
        LET a == engine.decision_history[i]
            b == engine.decision_history[j]
        IN (/\ a.features_summary = b.features_summary
            /\ a.ml_results = b.ml_results)
            => /\ a.explanation = b.explanation
               /\ a.decision_type = b.decision_type
               /\ a.urgency_level = b.urgency_level
               /\ a.confidence = b.confidence

\* whether the value the rule reads is not a number
Malformed(i) ==
    /\ rules[i].feature \in NumericFeatures
    /\ engine_call.features[rules[i].feature] = NoValue

\* C31: the adaptive multiplier changes only as a result of feedback: a
\* make_decision call leaves threshold_adjustment_factor as it was, so that
\* without update_feedback calls it stays at its initial value 1.0.
C31_Original ==
    [][(engine_call'.called /\ engine_call'.op = "make_decision")
          => engine'.threshold_adjustment_factor
                 = engine.threshold_adjustment_factor]_vars

\* C19: a rule whose evaluation raises reports triggered false with the error
\* as its reasoning, every other rule is still evaluated, and make_decision
\* returns a decision.
C19_RuleErrorContained ==
    Decided =>
        LET d == engine_call.decision IN
        /\ d.decision_type \in DecisionTypes
        /\ DOMAIN d.rule_details = DOMAIN rules
        /\ \A i \in DOMAIN rules :
            LET detail == d.rule_details[i]
                feature == rules[i].feature
            IN IF Malformed(i)
               THEN /\ ~detail.triggered
                    /\ detail.reasoning.text = "Rule evaluation error"
               ELSE IF feature \in NumericFeatures
               THEN /\ detail.triggered
                        = (engine_call.features[feature]
                           > rules[i].threshold)
                    /\ detail.reasoning.text = "exceeds threshold"
               ELSE IF feature \in FlagFeatures
               THEN detail.triggered = engine_call.features[feature]
               ELSE ~detail.triggered

\* C19 witness: a decision made from a malformed value, with another rule
\* triggered
C19_Witness ==
    /\ Decided
    /\ \E i \in DOMAIN rules : Malformed(i)
    /\ Reported({"heart_rate_anomaly"})
    /\ engine_call.decision.decision_type = "health_alert"

(***************************************************************************)
(* Claims about MultiLayerFallDetector                                     *)
(***************************************************************************)
\* C20: every run of process_features appends its combined result to
\* detection_history, whether the final decision is fall_detected or
\* no_fall.
C20_Original ==
    (detect_call.called /\ detect_call.op = "process_features")
        => /\ detector.detection_history # <<>>
           /\ detector.detection_history[Len(detector.detection_history)]
                = detect_call.results

\* whether the last call was a run of process_features
Processed == detect_call.called /\ detect_call.op = "process_features"

\* the confidence a layer of the last run contributes: its own when it fired
LayerConfidence(layer) ==
    IF layer.detected THEN layer.result.confidence ELSE 0

\* C21: process_features reports fall_detected whenever the weighted
\* confidence of the threshold and scored layers (0.4 / 0.6) reaches 0.6, or
\* either layer alone fires with its own confidence above 0.5.
C21_Original ==
    Processed =>
        LET layers == detect_call.results.detections
            threshold_confidence == LayerConfidence(layers.threshold)
            ml_confidence == LayerConfidence(layers.ml_classifier)
        IN (\/ (threshold_confidence * threshold_weight
                + ml_confidence * classifier_weight) \div 10 >= final_bar
            \/ threshold_confidence > layer_confidence_bar
            \/ ml_confidence > layer_confidence_bar)
            => detect_call.results.final_decision = "fall_detected"

(***************************************************************************)
(* Claims about AlertController                                            *)
(***************************************************************************)
\* the states in which handle raises an alert
AlertingStates == {"MONITORING", "HIGH_RISK", "PRE_FALL_WARNING", "ALERT"}

\* the entries the last handle call appended to the history
NewEntries ==
    SubSeq(controller.alert_history,
           Len(handle_call.before.alert_history) + 1,
           Len(controller.alert_history))

\* the last handle call logged a suppression for sleep
SleepSuppressed ==
    \E i \in DOMAIN NewEntries :
        /\ NewEntries[i].type = "suppressed"
        /\ "sleep_suppression" \in NewEntries[i].reason

\* C24: handle suppresses the alert (starts no alert sequence, does not sound
\* the buzzer, records a 'suppressed' entry with reason sleep_suppression)
\* for every alerting state when posture is lying and the acceleration is
\* missing or not above the impact threshold, and never suppresses for sleep
\* when the acceleration exceeds the impact threshold.
C24_Original ==
    handle_call.called =>
        /\ (/\ handle_call.state \in AlertingStates
            /\ handle_call.posture = "lying"
            /\ handle_call.acceleration <= impact_detection_threshold)
              => /\ SleepSuppressed
                 /\ Len(NewEntries) = 1
                 /\ controller.alert_active = handle_call.before.alert_active
                 /\ controller.buzzer_active = handle_call.before.buzzer_active
                 /\ controller.pulse_count = handle_call.before.pulse_count
        /\ handle_call.acceleration > impact_detection_threshold
              => ~SleepSuppressed

\* the last handle call appended an entry of the type to the history
Logged(type) ==
    \E i \in DOMAIN NewEntries : NewEntries[i].type = type

\* C28: while an alert is active, a handle call with user_response = cancel
\* cancels it, at whatever point after the alert started the cancel arrives:
\* after the call alert_active is false, the timer is 0, the buzzer is
\* stopped and a 'cancelled' entry has been appended to the history.
C28_Original ==
    (/\ handle_call.called
     /\ handle_call.before.alert_active
     /\ handle_call.user_response = "cancel")
        => /\ ~controller.alert_active
           /\ controller.timer = 0
           /\ ~controller.buzzer_active
           /\ Logged("cancelled")

\* the 'escalated' entries of the history
Escalations ==
    {i \in DOMAIN controller.alert_history :
        controller.alert_history[i].type = "escalated"}

\* C29: if the state passed to handle stays ALERT on every call and the user
\* never cancels, then after cancellation_window (10) further handle calls
\* alert_sent is true and one 'escalated' entry has been recorded, and never
\* more than one per alert.
C29_Original ==
    handle_call.called =>
        /\ Cardinality(Escalations) <= 1
        /\ handle_call.run > cancellation_window
              => /\ controller.alert_sent
                 /\ Cardinality(Escalations) = 1

(***************************************************************************)
(* Claims about SystemStateManager                                         *)
(***************************************************************************)
\* C25: the shared alert state is protected against concurrent access: no
\* interleaving lets the monitoring loop iterate active_alerts while
\* process_alert or resolve_alert on the main loop adds or removes an
\* entry.
C25_Original ==
    [][monitor.pc = "iterating"
        => DOMAIN safety'.active_alerts = DOMAIN safety.active_alerts]_vars

(***************************************************************************)
(* Claims about the FeatureExtractor's jerk and posture fields             *)
(***************************************************************************)
\* the last update got a sample whose timestamp is not later than that of
\* the sample before it
NotLater ==
    /\ feature_call.called
    /\ feature_call.previous_timestamp # NoValue
    /\ feature_call.timestamp <= feature_call.previous_timestamp

\* C26: when a sample's timestamp is not later than the previous sample's
\* (out of order or duplicate), the jerk computed for that sample is zero,
\* in the jerk that enters the instability score and in the FeatureVector's
\* jerk_magnitude, and the update completes without error.
C26_Original ==
    NotLater => /\ feature_call.instability_jerk = 0
                /\ feature_call.jerk_magnitude = 0
                /\ ~feature_call.error

\* C27: feeding the same sample at rest posture_window times or more in a
\* row yields the same current_posture on every one of those updates, and
\* a posture_stability_score of 1.0.
C27_SteadyPosture ==
    (feature_call.called /\ feature_call.same_run >= posture_window)
        => /\ Cardinality(feature_call.run_postures) = 1
           /\ feature_call.posture_stability_score = 1000

\* C27 witness: the sample has been repeated posture_window times after a
\* sample of another posture
C27_Witness ==
    /\ feature_call.called
    /\ feature_call.same_run >= posture_window
    /\ feature_call.fed > posture_window
    /\ feature_call.current_posture = "standing"
    /\ feature_call.posture_stability_score = 1000

\* C32: current_state only ever changes along an edge listed in
\* state_transitions, under every interleaving of the monitoring thread with
\* the callers of process_alert, confirm_alert and resolve_alert.
C32_Original ==
    [][safety'.current_state # safety.current_state
          => safety'.current_state
                \in state_transitions(safety.current_state)]_vars

\* C33: processing an alert of severity EMERGENCY or CRITICAL (process_alert
\* returns true, so the alert joins alert_history) while the state is NORMAL
\* or ALERT_PENDING leaves the system in EMERGENCY_ACTIVE.
C33_Original ==
    [][(/\ Len(safety'.alert_history) > Len(safety.alert_history)
        /\ safety'.alert_history[Len(safety'.alert_history)].severity
              \in {"EMERGENCY", "CRITICAL"}
        /\ safety.current_state \in {"NORMAL", "ALERT_PENDING"})
          => safety'.current_state = "EMERGENCY_ACTIVE"]_vars

\* C34: evaluate_sensor_data yields a panic_button alert for a sample with
\* panic_pressed true whenever that rule is not in cooldown, not in a
\* suppression window and the battery level is at or above the rule's
\* threshold (5), including on the first sample after start-up.
C34_Original ==
    (/\ evaluation.called
     /\ evaluation.sensor_data.panic_pressed
     /\ "panic_button" \notin evaluation.in_cooldown
     /\ "panic_button" \notin evaluation.suppressed
     /\ check_battery_threshold("panic_button",
                                evaluation.sensor_data.battery_level))
        => "panic_button" \in evaluation.alerts

\* C35: after every active alert has been resolved, the safety state
\* eventually returns to NORMAL from whichever of ALERT_PENDING,
\* ALERT_CONFIRMED or EMERGENCY_ACTIVE it was in, provided the monitoring
\* loop keeps running; no alert state is absorbing.
C35_Original ==
    (/\ DOMAIN safety.active_alerts = {}
     /\ safety.current_state
           \in {"ALERT_PENDING", "ALERT_CONFIRMED", "EMERGENCY_ACTIVE"})
        ~> (safety.current_state = "NORMAL")

(***************************************************************************)
(* Claims about ThresholdFallDetector                                      *)
(***************************************************************************)
\* the threshold layer fired at some earlier call
ThresholdFired == detector.last_fall_time > 0

\* C36: after detect_fall fired at time t, a call made before t + 10
\* returns not-detected with reason cooldown_period and leaves
\* last_fall_time unchanged; a call at or after t + 10 is evaluated against
\* the indicators, as by a detector that never fired.
C36_Cooldown ==
    [][(/\ ThresholdFired
        /\ detect_call'.called
        /\ detect_call'.op = "process_features")
          => LET current_time == boot_time + now'
                 layer == detect_call'.results.detections.threshold
                 fresh == threshold_detect_fall(0, detect_call'.features,
                                                current_time)
             IN IF current_time < detector.last_fall_time + fall_cooldown
                THEN /\ ~layer.detected
                     /\ layer.result.reason = "cooldown_period"
                     /\ detector'.last_fall_time = detector.last_fall_time
                ELSE /\ layer.detected = fresh.detected
                     /\ layer.result = fresh.result
                     /\ layer.result.reason # "cooldown_period"
                     /\ detector'.last_fall_time
                           = IF fresh.detected THEN current_time
                             ELSE detector.last_fall_time]_vars

\* C36: a call in the cooldown of an earlier firing has returned
C36_Witness ==
    /\ ThresholdFired
    /\ detect_call.called
    /\ detect_call.op = "process_features"
    /\ detect_call.results.detections.threshold.result.reason
          = "cooldown_period"
    /\ boot_time + now < detector.last_fall_time + fall_cooldown

(***************************************************************************)
(* Claims about the detector's results in the decision engine              *)
(***************************************************************************)
\* make_decision has returned a decision made on the results of the last
\* detection
DecidedOnDetection ==
    /\ engine_call.called
    /\ engine_call.op = "make_decision"
    /\ detect_call.called
    /\ detect_call.op = "process_features"
    /\ engine_call.features = detect_call.features
    /\ engine_call.ml_results = detection_results(detect_call.results)

\* the combined score of the last decision had the detector returned the
\* given results: the rules' outcomes and the adjustment factor are those of
\* the decision
ScoreWith(results) ==
    combine_evidence(engine_call.factor_before, detection_results(results),
                     engine.rule_states).combined_score

\* C39: the confidence the engine fuses is the detector's confidence that a
\* fall happened: the combined score of a decision made on a no_fall result
\* is not above the score the same rules give with a fall_detected result of
\* the detector on the same features, and a no_fall result whose layers both
\* reported confidence 0 contributes nothing.
C39_Original ==
    DecidedOnDetection =>
        LET results == detect_call.results
            decision == engine_call.decision
        IN /\ decision.ml_confidence = fall_confidence(results) \div 1000
           /\ results.final_decision = "no_fall"
                 => \A noise \in NoiseSamples, last \in {0, detector.last_fall_time} :
                       LET other == process_features(
                                        [detector EXCEPT !.last_fall_time = last],
                                        detect_call.features, noise,
                                        results.timestamp).results
                       IN other.final_decision = "fall_detected"
                             => decision.confidence <= ScoreWith(other)
           /\ (/\ results.final_decision = "no_fall"
               /\ results.detections.threshold.result.confidence = 0
               /\ results.detections.ml_classifier.result.confidence = 0)
                 => decision.ml_confidence * ml_weight = 0

\* the condition a rule of the table declares, on the given features
DeclaredCondition(rule, features) ==
    IF rule.feature \in FlagFeatures THEN features[rule.feature]
    ELSE features[rule.feature] > rule.threshold

\* C40: every rule of the table is evaluated by its declared condition: a
\* rule is triggered exactly when its condition holds of the features, so
\* features with orientation_stability above 30 trigger orientation_change,
\* and the triggered rules are the decision's triggered_rules.
C40_Original ==
    (engine_call.called /\ engine_call.op = "make_decision")
        => \A i \in DOMAIN rules :
              LET holds == DeclaredCondition(rules[i], engine_call.features)
                  decision == engine_call.decision
              IN /\ decision.rule_details[i].triggered = holds
                 /\ holds <=> rules[i].name \in Range(decision.triggered_rules)

====
